---- MODULE Spec2Model ----
(***************************************************************************)
(* A model of cinfer: the tool registry (cinfer/registry.py), the grammar  *)
(* generator (cinfer/grammar.py) and the agent loop (cinfer/agent.py).     *)
(*                                                                         *)
(* Text that the program inspects character by character (tool names,     *)
(* dependency values, generated text, type annotations) is a sequence of   *)
(* one-character strings.  Text that the program only assembles, stores    *)
(* and compares (history contents, cache keys, return values) is a TLA+    *)
(* string built with \o.                                                   *)
(***************************************************************************)
EXTENDS Integers, Sequences, FiniteSets, TLC

VARIABLES
    tools,          \* registry._tools: name -> ToolMetadata
    pending,        \* registry._pending_dependencies: name -> list of dependencies
    order,          \* the insertion order of the keys of registry._tools
    lists,          \* the list objects that dependencies refer to: id -> contents
    cache,          \* grammar_generator._cache: key -> grammar
    hashes,         \* grammar_generator._object_hashes: key -> content hash
    declared,       \* ghost: every add_dependency call so far, per tool name, in order
    cfg,            \* the Agent's constructor arguments
    history,        \* Agent.conversation_history
    pc,             \* where run() is suspended: the generation call it awaits
    iteration,      \* the loop variable of run()
    reasoning,      \* run()'s local variable
    req,            \* the request in flight: the grammar sent with it
    sel,            \* _execute_tool's locals: the selected name, descriptor, kwargs
    retval,         \* what the last run() returned
    runs,           \* ghost: the number of run() calls so far
    call,           \* ghost: the call made by the step that led here, and its result
    obs,            \* ghost: counters and flags of the current run
    seen,           \* ghost: what grammar generation and declarations showed so far
    arg,            \* the argument of the function under check
    ret,            \* what the function under check returned for arg
    files,          \* the file system: path -> "file" or "dir"
    threads         \* the threads inside the grammar generator: their locals

vars == <<tools, pending, lists, cache, hashes, declared, cfg, history, pc,
          iteration, reasoning, req, sel, retval, runs, call, obs, order, seen,
          arg, ret, files, threads>>

regVars == <<tools, pending, order, lists, declared>>
cacheVars == <<cache, hashes>>
agentVars == <<cfg, history, pc, iteration, reasoning, req, sel, retval, runs, call, obs>>
agentRest == <<cfg, history, pc, iteration, reasoning, req, sel, retval, runs, obs>>
auxVars == <<seen, arg, ret, files, threads>>

(***************************************************************************)
(* Bounds of the model.                                                    *)
(***************************************************************************)
MaxIterations == 2      \* the largest max_iterations an Agent is built with
MaxRuns == 2            \* run() calls on one Agent
MaxHistory == 2         \* a further run() starts while the history is shorter
MaxEnvOps == 1          \* registry changes by other tasks while run() is suspended
MaxDeclared == 3        \* add_dependency calls between two clear() calls

None == "None"          \* Python's None, where a string is expected
NoneText == <<"None">>  \* Python's None, where a text (a sequence of characters) is expected
NoneObject == [none |-> TRUE]   \* Python's None, where an object is expected

(***************************************************************************)
(* Characters and strings.                                                 *)
(***************************************************************************)
\* The grave accent character (U+0060), which the fence and quote stripping of
\* the normalizer looks for.  It is the one character of the model that is not
\* written as itself.
Backtick == "BACKTICK"

\* The characters of the model in code point order (Python compares strings
\* by code point).
CharOrder ==
    <<"\t", "\n", "\r", " ", "!", "\"", "'", "(", ")", ",", "-", ".",
      "0", "1", "2", "3", "4", "5", "6", "7", "8", "9", ":", "<", "=", ">",
      "A", "B", "C", "D", "E", "F", "G", "H", "I", "J", "K", "L", "M",
      "N", "O", "P", "Q", "R", "S", "T", "U", "V", "W", "X", "Y", "Z",
      "[", "\\", "]", "_", Backtick,
      "a", "b", "c", "d", "e", "f", "g", "h", "i", "j", "k", "l", "m",
      "n", "o", "p", "q", "r", "s", "t", "u", "v", "w", "x", "y", "z",
      "{", "}">>

Ord(c) == CHOOSE i \in 1..Len(CharOrder) : CharOrder[i] = c

UpperCase == <<"A", "B", "C", "D", "E", "F", "G", "H", "I", "J", "K", "L", "M",
               "N", "O", "P", "Q", "R", "S", "T", "U", "V", "W", "X", "Y", "Z">>
LowerCase == <<"a", "b", "c", "d", "e", "f", "g", "h", "i", "j", "k", "l", "m",
               "n", "o", "p", "q", "r", "s", "t", "u", "v", "w", "x", "y", "z">>

\* str.lower(), one character
LowerChar(c) ==
    IF \E i \in 1..26 : UpperCase[i] = c
    THEN LowerCase[CHOOSE i \in 1..26 : UpperCase[i] = c]
    ELSE c

\* str.lower()
Lower(s) == [i \in 1..Len(s) |-> LowerChar(s[i])]

\* the TLA+ string with the characters of s
RECURSIVE Join(_)
Join(s) == IF s = <<>> THEN "" ELSE Head(s) \o Join(Tail(s))

\* s.startswith(p), p a TLA+ string
StartsWith(s, p) == Len(s) >= Len(p) /\ Join(SubSeq(s, 1, Len(p))) = p

\* p in s, p a TLA+ string
Contains(s, p) ==
    \E i \in 1..(Len(s) + 1) :
        i + Len(p) - 1 <= Len(s) /\ Join(SubSeq(s, i, i + Len(p) - 1)) = p

\* s.startswith(p) and p in s, p a sequence of characters
StartsWithSeq(s, p) == Len(s) >= Len(p) /\ SubSeq(s, 1, Len(p)) = p

ContainsSeq(s, p) ==
    \E i \in 1..(Len(s) + 1) :
        i + Len(p) - 1 <= Len(s) /\ SubSeq(s, i, i + Len(p) - 1) = p

\* str.find: the first index (from 1) of character c in s, 0 when absent
Find(s, c) ==
    IF \E i \in 1..Len(s) : s[i] = c
    THEN CHOOSE i \in 1..Len(s) : s[i] = c /\ \A j \in 1..(i - 1) : s[j] # c
    ELSE 0

Whitespace == {" ", "\t", "\n", "\r"}

\* str.strip(chars): drop leading and trailing characters that are in cs
RECURSIVE LStrip(_, _)
LStrip(s, cs) ==
    IF s # <<>> /\ Head(s) \in cs THEN LStrip(Tail(s), cs) ELSE s

RECURSIVE RStrip(_, _)
RStrip(s, cs) ==
    IF s # <<>> /\ s[Len(s)] \in cs THEN RStrip(SubSeq(s, 1, Len(s) - 1), cs) ELSE s

StripChars(s, cs) == RStrip(LStrip(s, cs), cs)

\* str.strip()
Strip(s) == StripChars(s, Whitespace)

\* str.split(c): the pieces of s between occurrences of character c
RECURSIVE Split(_, _)
Split(s, c) ==
    LET i == Find(s, c)
    IN  IF i = 0 THEN <<s>>
        ELSE <<SubSeq(s, 1, i - 1)>> \o Split(SubSeq(s, i + 1, Len(s)), c)

\* '\n'.join(ls)
RECURSIVE JoinLines(_)
JoinLines(ls) ==
    IF ls = <<>> THEN <<>>
    ELSE IF Len(ls) = 1 THEN ls[1]
    ELSE ls[1] \o <<"\n">> \o JoinLines(Tail(ls))

\* s < t for Python strings
RECURSIVE StrLess(_, _)
StrLess(s, t) ==
    IF t = <<>> THEN FALSE
    ELSE IF s = <<>> THEN TRUE
    ELSE IF Head(s) = Head(t) THEN StrLess(Tail(s), Tail(t))
    ELSE Ord(Head(s)) < Ord(Head(t))

\* A faulty sorted(S): the names of the registry come in the insertion order
\* of the registry's keys
Sorted_InsertionOrder(S) ==
    IF {order[i] : i \in 1..Len(order)} = S THEN order
    ELSE CHOOSE q \in [1..Cardinality(S) -> S] : {q[i] : i \in 1..Cardinality(S)} = S

\* sorted(S) for a set of strings
RECURSIVE Sorted(_)
Sorted(S) ==
    IF S = {} THEN <<>>
    ELSE LET m == CHOOSE x \in S : \A y \in S \ {x} : StrLess(x, y)
         IN  <<m>> \o Sorted(S \ {m})

Range(f) == {f[i] : i \in DOMAIN f}

\* ' | '.join(parts) and similar: the parts with sep between them
RECURSIVE JoinWith(_, _)
JoinWith(parts, sep) ==
    IF parts = <<>> THEN <<>>
    ELSE IF Len(parts) = 1 THEN parts[1]
    ELSE parts[1] \o sep \o JoinWith(Tail(parts), sep)

\* s.replace(c, r) for a character c and a string r
RECURSIVE Replace(_, _, _)
Replace(s, c, r) ==
    IF s = <<>> THEN <<>>
    ELSE (IF Head(s) = c THEN r ELSE <<Head(s)>>) \o Replace(Tail(s), c, r)

(***************************************************************************)
(* The tool functions of the model.  A tool function has a __name__, a     *)
(* signature (parameter names with the str() of their annotations) and,    *)
(* for the declarations stacked on it, the dependencies @depends names.    *)
(***************************************************************************)
T_str == <<"<", "c", "l", "a", "s", "s", " ", "'", "s", "t", "r", "'", ">">>
T_int == <<"<", "c", "l", "a", "s", "s", " ", "'", "i", "n", "t", "'", ">">>
T_float == <<"<", "c", "l", "a", "s", "s", " ", "'", "f", "l", "o", "a", "t", "'", ">">>
T_bool == <<"<", "c", "l", "a", "s", "s", " ", "'", "b", "o", "o", "l", "'", ">">>
T_dict == <<"<", "c", "l", "a", "s", "s", " ", "'", "d", "i", "c", "t", "'", ">">>
T_list == <<"t", "y", "p", "i", "n", "g", ".", "L", "i", "s", "t", "[", "s", "t", "r", "]">>

N_filter == <<"f", "i", "l", "t", "e", "r">>
N_cnt == <<"c", "n", "t">>
N_NONE == <<"N", "O", "N", "E">>
P_column == <<"c", "o", "l">>
P_value == <<"v", "a", "l">>
P_n == <<"n">>
P_xs == <<"x", "s">>

\* def filter(col: str, val: dict), def cnt(n: int, xs: List[str]), def NONE()
Functions ==
    [filter |-> [name |-> N_filter,
                 parameters |-> <<[name |-> P_column, annotation |-> T_str],
                                  [name |-> P_value, annotation |-> T_dict]>>],
     cnt    |-> [name |-> N_cnt,
                 parameters |-> <<[name |-> P_n, annotation |-> T_int],
                                  [name |-> P_xs, annotation |-> T_list]>>],
     NONE   |-> [name |-> N_NONE, parameters |-> <<>>]]

FunctionIds == DOMAIN Functions

\* The list objects that @depends declarations name, with their contents at
\* import time: COLUMNS = ["a", "b."], WORDS = ["twelve", "xy"],
\* PATHS = [Path("p")]; a value is kept as its str() form
ListIds == {"COLUMNS", "WORDS", "PATHS"}
InitialLists ==
    [COLUMNS |-> << <<"a">>, <<"b", ".">> >>,
     WORDS   |-> << <<"t", "w", "e", "l", "v", "e">>, <<"x", "y">> >>,
     PATHS   |-> << <<"p">> >>]

\* The lists whose values json.dumps raises TypeError for
Unserializable == {"PATHS"}

\* The @depends(...) stacked under @tool on each function: parameter -> list
Decorations ==
    [filter |-> << <<P_column, "COLUMNS">> >>,
     cnt    |-> << <<P_n, "WORDS">> >>,
     NONE   |-> <<>>]

(***************************************************************************)
(* registry.py                                                             *)
(***************************************************************************)
\* ParameterDependency: source_object is the id of a list object, or a raw
\* grammar text when is_grammar
ParameterDependency(param_name, source_object, source_name, is_grammar) ==
    [param_name |-> param_name, source_object |-> source_object,
     source_name |-> source_name, is_grammar |-> is_grammar]

\* ToolMetadata.get_dependency
get_dependency(meta, param_name) ==
    LET deps == meta.dependencies
        hits == {i \in 1..Len(deps) : deps[i].param_name = param_name}
    IN  IF hits = {} THEN NoneObject
        ELSE deps[CHOOSE i \in hits : \A j \in hits : i <= j]

\* The registry as a value: [tools, pending]
Registry(t, p) == [tools |-> t, pending |-> p]

\* A faulty register_tool: the pending dependencies are attached but not
\* removed from the pending area
register_tool_KeepPending(reg, fid) ==
    LET tool_name == Functions[fid].name
    IN  Registry(
            [n \in DOMAIN reg.tools \cup {tool_name} |->
                IF n = tool_name
                THEN [name |-> tool_name, func |-> fid,
                      parameters |-> Functions[fid].parameters,
                      dependencies |->
                          IF tool_name \in DOMAIN reg.pending
                          THEN reg.pending[tool_name] ELSE <<>>]
                ELSE reg.tools[n]],
            reg.pending)

\* ToolRegistry.register_tool
register_tool(reg, fid) ==
    LET tool_name == Functions[fid].name
        metadata == [name |-> tool_name,
                     func |-> fid,
                     parameters |-> Functions[fid].parameters,
                     dependencies |->
                        IF tool_name \in DOMAIN reg.pending
                        THEN reg.pending[tool_name] ELSE <<>>]
    IN  Registry(
            [n \in DOMAIN reg.tools \cup {tool_name} |->
                IF n = tool_name THEN metadata ELSE reg.tools[n]],
            [n \in DOMAIN reg.pending \ {tool_name} |-> reg.pending[n]])

\* A faulty add_dependency: the dependency is buffered whether or not the
\* tool is registered
add_dependency_Buffered(reg, func_name, dependency) ==
    Registry(
        reg.tools,
        [n \in DOMAIN reg.pending \cup {func_name} |->
            IF n \in DOMAIN reg.pending
            THEN (IF n = func_name THEN Append(reg.pending[n], dependency)
                  ELSE reg.pending[n])
            ELSE <<dependency>>])

\* ToolRegistry.add_dependency
add_dependency(reg, func_name, dependency) ==
    IF func_name \in DOMAIN reg.tools
    THEN Registry(
            [reg.tools EXCEPT ![func_name].dependencies = Append(@, dependency)],
            reg.pending)
    ELSE Registry(
            reg.tools,
            [n \in DOMAIN reg.pending \cup {func_name} |->
                IF n \in DOMAIN reg.pending
                THEN (IF n = func_name THEN Append(reg.pending[n], dependency)
                      ELSE reg.pending[n])
                ELSE <<dependency>>])

\* self._tools[tool_name] = metadata: a new key goes to the end of the dict's
\* keys, a key that is present keeps its place
keys_after_set(keys, name) ==
    IF \E i \in 1..Len(keys) : keys[i] = name THEN keys ELSE Append(keys, name)

\* ToolRegistry.get_tool
get_tool(t, name) == IF name \in DOMAIN t THEN t[name] ELSE NoneObject

\* ToolRegistry.clear
clear_registry == Registry(<<>>, <<>>)

\* A faulty _escape_string: the backslash is replaced last
_escape_string_BackslashLast(s) ==
    LET s1 == Replace(s, "\"", <<"\\", "\"">>)
        s2 == Replace(s1, "\n", <<"\\", "n">>)
        s3 == Replace(s2, "\r", <<"\\", "r">>)
        s4 == Replace(s3, "\t", <<"\\", "t">>)
        s5 == Replace(s4, "\\", <<"\\", "\\">>)
    IN  s5

(***************************************************************************)
(* grammar.py                                                              *)
(***************************************************************************)
\* GrammarGenerator._escape_string
_escape_string(s) ==
    LET s1 == Replace(s, "\\", <<"\\", "\\">>)
        s2 == Replace(s1, "\"", <<"\\", "\"">>)
        s3 == Replace(s2, "\n", <<"\\", "n">>)
        s4 == Replace(s3, "\r", <<"\\", "r">>)
        s5 == Replace(s4, "\t", <<"\\", "t">>)
    IN  s5

\* The objects handed to _hash_object: a list object, known by its identity
\* and holding its contents, and a tuple built for the call
PyList(ls, id) == [id |-> id, content |-> ls[id], dumps |-> id \notin Unserializable]
PyTuple(content) == [id |-> "tuple", content |-> content, dumps |-> TRUE]

\* A faulty _hash_object: the identity of the list, whatever its contents
_hash_object_Identity(obj) == <<"id", obj.id>>

\* GrammarGenerator._hash_object for a list or tuple: the md5 of the JSON text
\* of the contents (the model keeps the contents themselves: md5 is taken to
\* be collision free), and str(id(obj)) when json.dumps raises
_hash_object(obj) ==
    IF obj.dumps THEN <<"md5", obj.content>> ELSE <<"id", obj.id>>

G_root == <<"r", "o", "o", "t", " ", ":", ":", "=", " ">>
G_bar == <<" ", "|", " ">>
G_NO_TOOLS == G_root \o <<"\"">> \o
    <<"N", "O", "_", "T", "O", "O", "L", "S", "_", "A", "V", "A", "I", "L", "A", "B", "L", "E">>
    \o <<"\"">>
G_NO_OPTIONS == G_root \o <<"\"">> \o
    <<"N", "O", "_", "O", "P", "T", "I", "O", "N", "S", "_", "A", "V", "A", "I", "L", "A", "B", "L", "E">>
    \o <<"\"">>

\* f'"{self._escape_string(x)}"'
Quoted(x) == <<"\"">> \o _escape_string(x) \o <<"\"">>

\* ' | '.join([f'"{self._escape_string(v)}"' for v in values])
Alternatives(values) ==
    JoinWith([i \in 1..Len(values) |-> Quoted(values[i])], G_bar)

\* The grammar generator's memo as a value: [cache, hashes]
Memo(c, h) == [cache |-> c, hashes |-> h]

\* cache[key] = grammar; object_hashes[key] = hash
MemoPut(memo, key, grammar, hash) ==
    Memo([k \in DOMAIN memo.cache \cup {key} |->
            IF k = key THEN grammar ELSE memo.cache[k]],
         [k \in DOMAIN memo.hashes \cup {key} |->
            IF k = key THEN hash ELSE memo.hashes[k]])

\* key in cache and object_hashes.get(key) == hash
MemoHit(memo, key, hash) ==
    /\ key \in DOMAIN memo.cache
    /\ key \in DOMAIN memo.hashes
    /\ memo.hashes[key] = hash

\* A faulty generate_tools_grammar: no check for an empty registry
ToolsGrammarText_NoSentinel(t, allow_none) ==
    G_root \o (IF allow_none
               THEN <<"\"", "N", "O", "N", "E", "\"">> \o G_bar
                        \o Alternatives(Sorted(DOMAIN t))
               ELSE Alternatives(Sorted(DOMAIN t)))

\* A faulty generate_tools_grammar: "NONE" is listed whatever allow_none is
ToolsGrammarText_AlwaysNone(t, allow_none) ==
    IF DOMAIN t = {}
    THEN G_NO_TOOLS
    ELSE G_root \o <<"\"", "N", "O", "N", "E", "\"">> \o G_bar
                \o Alternatives(Sorted(DOMAIN t))

\* The grammar text of generate_tools_grammar when it is computed
ToolsGrammarText(t, allow_none) ==
    IF DOMAIN t = {}
    THEN G_NO_TOOLS
    ELSE LET tool_names == Sorted(DOMAIN t)
             alternatives == Alternatives(tool_names)
         IN  G_root \o (IF allow_none
                        THEN <<"\"", "N", "O", "N", "E", "\"">> \o G_bar \o alternatives
                        ELSE alternatives)

\* GrammarGenerator.generate_tools_grammar: [grammar, memo]
generate_tools_grammar(t, memo, allow_none) ==
    LET cache_key == "tools_grammar_none_" \o (IF allow_none THEN "True" ELSE "False")
        tools_hash == _hash_object(PyTuple(<<Sorted(DOMAIN t), allow_none>>))
    IN  IF MemoHit(memo, cache_key, tools_hash)
        THEN [grammar |-> memo.cache[cache_key], memo |-> memo]
        ELSE LET grammar == ToolsGrammarText(t, allow_none)
             IN  [grammar |-> grammar,
                  memo |-> MemoPut(memo, cache_key, grammar, tools_hash)]

\* A faulty generate_parameter_grammar: the values are quoted as they are
ParameterGrammarText_Unescaped(values) ==
    IF values = <<>> THEN G_NO_OPTIONS
    ELSE G_root \o JoinWith([i \in 1..Len(values) |->
                                <<"\"">> \o values[i] \o <<"\"">>], G_bar)

\* The grammar text of generate_parameter_grammar for an enumerated
\* dependency when it is computed
ParameterGrammarText(values) ==
    IF values = <<>> THEN G_NO_OPTIONS ELSE G_root \o Alternatives(values)

\* GrammarGenerator.generate_parameter_grammar: [grammar, memo]
generate_parameter_grammar(t, ls, memo, tool_name, param_name) ==
    LET tool == get_tool(t, tool_name)
        dependency == IF tool = NoneObject THEN NoneObject ELSE get_dependency(tool, param_name)
    IN  IF tool = NoneObject \/ dependency = NoneObject
        THEN [grammar |-> NoneText, memo |-> memo]
        ELSE IF dependency.is_grammar
        THEN [grammar |-> dependency.source_object, memo |-> memo]
        ELSE LET cache_key == Join(tool_name) \o "_" \o Join(param_name) \o "_grammar"
                 obj_hash == _hash_object(PyList(ls, dependency.source_object))
             IN  IF MemoHit(memo, cache_key, obj_hash)
                 THEN [grammar |-> memo.cache[cache_key], memo |-> memo]
                 ELSE LET grammar == ParameterGrammarText(ls[dependency.source_object])
                      IN  [grammar |-> grammar,
                           memo |-> MemoPut(memo, cache_key, grammar, obj_hash)]

(***************************************************************************)
(* The generation backend.  A call with a grammar returns a text of the    *)
(* grammar's language; a call without one returns any text.                *)
(***************************************************************************)
\* The coarse type grammars that _get_parameter_value sends
G_int == G_root \o <<"\"", "-", "\"", "?", " ", "[", "0", "-", "9", "]", "+">>
G_float == G_int \o
    <<" ", "(", "\"", ".", "\"", " ", "[", "0", "-", "9", "]", "+", ")", "?">>
G_bool == G_root \o
    <<"\"", "t", "r", "u", "e", "\"", " ", "|", " ", "\"", "f", "a", "l", "s", "e", "\"">>

Digits == {"0", "1", "2", "3", "4", "5", "6", "7", "8", "9"}

\* The literal that starts after an opening quote: [ok, lit, rest], reading
\* the escapes \\ \" \n \r \t
RECURSIVE ReadLiteral(_, _)
ReadLiteral(s, acc) ==
    IF s = <<>> THEN [ok |-> FALSE, lit |-> acc, rest |-> <<>>]
    ELSE IF Head(s) = "\"" THEN [ok |-> TRUE, lit |-> acc, rest |-> Tail(s)]
    ELSE IF Head(s) = "\\"
    THEN IF Len(s) < 2 \/ s[2] \notin {"\\", "\"", "n", "r", "t"}
         THEN [ok |-> FALSE, lit |-> acc, rest |-> <<>>]
         ELSE LET c == CASE s[2] = "n" -> "\n"
                         [] s[2] = "r" -> "\r"
                         [] s[2] = "t" -> "\t"
                         [] OTHER -> s[2]
              IN  ReadLiteral(SubSeq(s, 3, Len(s)), Append(acc, c))
    ELSE ReadLiteral(Tail(s), Append(acc, Head(s)))

\* The literals of an alternation "l1" | "l2" | ...: [ok, lits]
RECURSIVE ReadAlternation(_, _)
ReadAlternation(s, acc) ==
    IF s = <<>> \/ Head(s) # "\"" THEN [ok |-> FALSE, lits |-> acc]
    ELSE LET r == ReadLiteral(Tail(s), <<>>)
         IN  IF ~r.ok THEN [ok |-> FALSE, lits |-> acc]
             ELSE IF r.rest = <<>> THEN [ok |-> TRUE, lits |-> Append(acc, r.lit)]
             ELSE IF StartsWithSeq(r.rest, G_bar)
             THEN ReadAlternation(SubSeq(r.rest, Len(G_bar) + 1, Len(r.rest)),
                                  Append(acc, r.lit))
             ELSE [ok |-> FALSE, lits |-> acc]

\* Texts the backend returns for a call without a grammar, and for a call
\* with a grammar that is not an alternation of literals
FreeTexts ==
    { <<"x", "\n", "y">>,
      <<"[", "\"", "a", "\"", ",", "\"", "b", "\"", "]">> }

\* Texts the backend may return under the coarse type grammars
NumberTexts == { <<"7">>, <<"-", "3">>, <<"1", ".", "5">> }

IsIntText(s) ==
    LET d == IF s # <<>> /\ Head(s) = "-" THEN Tail(s) ELSE s
    IN  d # <<>> /\ \A i \in 1..Len(d) : d[i] \in Digits

IsFloatText(s) ==
    \/ IsIntText(s)
    \/ \E i \in 2..(Len(s) - 1) :
          /\ s[i] = "."
          /\ IsIntText(SubSeq(s, 1, i - 1))
          /\ \A k \in (i + 1)..Len(s) : s[k] \in Digits

\* The texts a grammar accepts (of the texts of the model)
Language(grammar) ==
    IF grammar = G_int THEN {s \in NumberTexts : IsIntText(s)}
    ELSE IF grammar = G_float THEN {s \in NumberTexts : IsFloatText(s)}
    ELSE IF StartsWithSeq(grammar, G_root)
            /\ ReadAlternation(SubSeq(grammar, Len(G_root) + 1, Len(grammar)), <<>>).ok
    THEN Range(ReadAlternation(SubSeq(grammar, Len(G_root) + 1, Len(grammar)), <<>>).lits)
    ELSE FreeTexts

(***************************************************************************)
(* Python values.  A value carries its type: str (characters), int, float  *)
(* (num / 10^scale), bool, list (values), dict (key-value pairs), none.    *)
(***************************************************************************)
Str(s) == [t |-> "str", v |-> s]
Int_(n) == [t |-> "int", v |-> n]
Bool(b) == [t |-> "bool", v |-> b]
List(xs) == [t |-> "list", v |-> xs]
Dict(kvs) == [t |-> "dict", v |-> kvs]
NoneValue == [t |-> "none", v |-> 0]

RECURSIVE NormFloat(_, _)
NormFloat(num, scale) ==
    IF scale > 0 /\ num % 10 = 0 THEN NormFloat(num \div 10, scale - 1)
    ELSE [t |-> "float", v |-> <<num, scale>>]

DigitValue(c) == Ord(c) - Ord("0")

\* the number written by a sequence of digits
RECURSIVE DigitsValue(_)
DigitsValue(d) ==
    IF d = <<>> THEN 0
    ELSE 10 * DigitsValue(SubSeq(d, 1, Len(d) - 1)) + DigitValue(d[Len(d)])

AllDigits(d) == d # <<>> /\ \A i \in 1..Len(d) : d[i] \in Digits

Pow10(k) == CASE k = 0 -> 1 [] k = 1 -> 10 [] k = 2 -> 100 [] OTHER -> 1000

\* int(value) for a str: [ok, v]; surrounding whitespace and a sign are accepted
IntParse(value) ==
    LET s == Strip(value)
        signed == s # <<>> /\ Head(s) \in {"-", "+"}
        d == IF signed THEN Tail(s) ELSE s
    IN  IF AllDigits(d)
        THEN [ok |-> TRUE,
              v |-> IF signed /\ Head(s) = "-" THEN 0 - DigitsValue(d) ELSE DigitsValue(d)]
        ELSE [ok |-> FALSE, v |-> 0]

\* float(value) for a str in plain decimal notation: [ok, v]
FloatParse(value) ==
    LET s == Strip(value)
        signed == s # <<>> /\ Head(s) \in {"-", "+"}
        neg == signed /\ Head(s) = "-"
        d == IF signed THEN Tail(s) ELSE s
        dot == Find(d, ".")
        ip == IF dot = 0 THEN d ELSE SubSeq(d, 1, dot - 1)
        fp == IF dot = 0 THEN <<>> ELSE SubSeq(d, dot + 1, Len(d))
        ok == /\ ip \o fp # <<>>
              /\ \A i \in 1..Len(ip) : ip[i] \in Digits
              /\ \A i \in 1..Len(fp) : fp[i] \in Digits
        mag == DigitsValue(ip \o fp)
    IN  IF ok
        THEN [ok |-> TRUE, v |-> NormFloat(IF neg THEN 0 - mag ELSE mag, Len(fp))]
        ELSE [ok |-> FALSE, v |-> NoneValue]

(***************************************************************************)
(* json.loads, for integers, decimals, strings without escapes, true,      *)
(* false, null, arrays and objects.  Each reader returns [ok, v, rest].    *)
(***************************************************************************)
JsonFail == [ok |-> FALSE, v |-> NoneValue, rest |-> <<>>]

SkipWs(s) == LStrip(s, Whitespace)

\* the longest prefix of s made of characters of cs
RECURSIVE TakeWhile(_, _)
TakeWhile(s, cs) ==
    IF s # <<>> /\ Head(s) \in cs THEN <<Head(s)>> \o TakeWhile(Tail(s), cs) ELSE <<>>

JsonNumber(s) ==
    LET neg == s # <<>> /\ Head(s) = "-"
        d == IF neg THEN Tail(s) ELSE s
        ip == TakeWhile(d, Digits)
        r1 == SubSeq(d, Len(ip) + 1, Len(d))
        hasFrac == r1 # <<>> /\ Head(r1) = "."
        fp == IF hasFrac THEN TakeWhile(Tail(r1), Digits) ELSE <<>>
        rest == IF hasFrac THEN SubSeq(r1, Len(fp) + 2, Len(r1)) ELSE r1
        mag == DigitsValue(ip \o fp)
    IN  IF ip = <<>> \/ (Len(ip) > 1 /\ ip[1] = "0") \/ (hasFrac /\ fp = <<>>)
        THEN JsonFail
        ELSE [ok |-> TRUE,
              v |-> IF hasFrac THEN NormFloat(IF neg THEN 0 - mag ELSE mag, Len(fp))
                    ELSE Int_(IF neg THEN 0 - mag ELSE mag),
              rest |-> rest]

JsonString(s) ==
    LET body == Tail(s)
        close == Find(body, "\"")
        text == SubSeq(body, 1, close - 1)
    IN  IF close = 0 \/ \E i \in 1..Len(text) : text[i] \in {"\\", "\n", "\t", "\r"}
        THEN JsonFail
        ELSE [ok |-> TRUE, v |-> Str(text), rest |-> SubSeq(body, close + 1, Len(body))]

JsonWord(s, w, v) ==
    IF StartsWith(s, w)
    THEN [ok |-> TRUE, v |-> v, rest |-> SubSeq(s, Len(w) + 1, Len(s))]
    ELSE JsonFail

RECURSIVE JsonValue(_)
RECURSIVE JsonElements(_, _)
RECURSIVE JsonMembers(_, _)

\* the elements of an array after "[" or ",": s starts at an element
JsonElements(s, acc) ==
    LET e == JsonValue(s)
        r == SkipWs(e.rest)
    IN  IF ~e.ok \/ r = <<>> THEN JsonFail
        ELSE IF Head(r) = "]"
        THEN [ok |-> TRUE, v |-> List(Append(acc, e.v)), rest |-> Tail(r)]
        ELSE IF Head(r) = ","
        THEN JsonElements(Tail(r), Append(acc, e.v))
        ELSE JsonFail

\* the members of an object after "{" or ",": s starts at a key
JsonMembers(s, acc) ==
    LET s1 == SkipWs(s)
        k == IF s1 # <<>> /\ Head(s1) = "\"" THEN JsonString(s1) ELSE JsonFail
        r1 == SkipWs(k.rest)
        e == IF k.ok /\ r1 # <<>> /\ Head(r1) = ":" THEN JsonValue(Tail(r1)) ELSE JsonFail
        r == SkipWs(e.rest)
    IN  IF ~e.ok \/ r = <<>> THEN JsonFail
        ELSE IF Head(r) = "}"
        THEN [ok |-> TRUE, v |-> Dict(Append(acc, <<k.v.v, e.v>>)), rest |-> Tail(r)]
        ELSE IF Head(r) = ","
        THEN JsonMembers(Tail(r), Append(acc, <<k.v.v, e.v>>))
        ELSE JsonFail

JsonValue(s0) ==
    LET s == SkipWs(s0)
    IN  IF s = <<>> THEN JsonFail
        ELSE IF Head(s) = "\"" THEN JsonString(s)
        ELSE IF Head(s) = "["
        THEN (IF SkipWs(Tail(s)) # <<>> /\ Head(SkipWs(Tail(s))) = "]"
              THEN [ok |-> TRUE, v |-> List(<<>>), rest |-> Tail(SkipWs(Tail(s)))]
              ELSE JsonElements(Tail(s), <<>>))
        ELSE IF Head(s) = "{"
        THEN (IF SkipWs(Tail(s)) # <<>> /\ Head(SkipWs(Tail(s))) = "}"
              THEN [ok |-> TRUE, v |-> Dict(<<>>), rest |-> Tail(SkipWs(Tail(s)))]
              ELSE JsonMembers(Tail(s), <<>>))
        ELSE IF Head(s) \in Digits \cup {"-"} THEN JsonNumber(s)
        ELSE IF Head(s) = "t" THEN JsonWord(s, "true", Bool(TRUE))
        ELSE IF Head(s) = "f" THEN JsonWord(s, "false", Bool(FALSE))
        ELSE IF Head(s) = "n" THEN JsonWord(s, "null", NoneValue)
        ELSE JsonFail

\* json.loads(value): [ok, v]
json_loads(value) ==
    LET r == JsonValue(value)
    IN  IF r.ok /\ SkipWs(r.rest) = <<>>
        THEN [ok |-> TRUE, v |-> r.v] ELSE [ok |-> FALSE, v |-> NoneValue]

(***************************************************************************)
(* agent.py: cleaning and converting a generated parameter value           *)
(***************************************************************************)
Fence == <<Backtick, Backtick, Backtick>>

\* s.replace(p, '') for a sequence of characters p
RECURSIVE Remove(_, _)
Remove(s, p) ==
    IF s = <<>> THEN <<>>
    ELSE IF StartsWithSeq(s, p) THEN Remove(SubSeq(s, Len(p) + 1, Len(s)), p)
    ELSE <<Head(s)>> \o Remove(Tail(s), p)

\* the first index i >= from with s[i..] starting with p, 0 when there is none
FindSeq(s, p, from) ==
    LET hits == {i \in from..(Len(s) - Len(p) + 1) : SubSeq(s, i, i + Len(p) - 1) = p}
    IN  IF hits = {} THEN 0 ELSE CHOOSE i \in hits : \A j \in hits : i <= j

\* str.splitlines(): breaks at \n, \r and \r\n, no empty last line
RECURSIVE SplitLines(_)
SplitLines(s) ==
    IF s = <<>> THEN <<>>
    ELSE LET brk == {i \in 1..Len(s) : s[i] \in {"\n", "\r"}}
         IN  IF brk = {} THEN <<s>>
             ELSE LET i == CHOOSE k \in brk : \A j \in brk : k <= j
                      n == IF s[i] = "\r" /\ i < Len(s) /\ s[i + 1] = "\n"
                           THEN i + 2 ELSE i + 1
                  IN  <<SubSeq(s, 1, i - 1)>> \o SplitLines(SubSeq(s, n, Len(s)))

WordChars == Digits \cup Range(UpperCase) \cup Range(LowerCase) \cup {"_"}

\* One match of ```\s*<header>\s*\n(.*?)``` at index i of s, where the header
\* is the language (any case) or, when lang is None, \w*: [ok, block, next].
\* The quantifiers are greedy: the longest first run of whitespace, then the
\* longest header, then the longest second run for which the rest matches.
FenceMatchAt(s, i, lang) ==
    LET n == Len(s)
        ws(a, b) == \A k \in a..b : s[k] \in Whitespace
        hdr(a, b) ==
            IF lang = NoneText THEN \A k \in a..b : s[k] \in WordChars
            ELSE Lower(SubSeq(s, a, b)) = Lower(lang)
        \* a: end of the first whitespace run, b: end of the header, c: the \n
        ok(a, b, c) ==
            /\ ws(i + 3, a) /\ hdr(a + 1, b) /\ ws(b + 1, c - 1) /\ s[c] = "\n"
            /\ FindSeq(s, Fence, c + 1) # 0
        cands == {abc \in ((i + 2)..n) \X ((i + 2)..n) \X ((i + 3)..n) :
                    /\ abc[1] <= abc[2] /\ abc[2] < abc[3]
                    /\ ok(abc[1], abc[2], abc[3])}
        best == CHOOSE x \in cands : \A y \in cands :
                    \/ x[1] > y[1]
                    \/ (x[1] = y[1] /\ x[2] > y[2])
                    \/ (x[1] = y[1] /\ x[2] = y[2] /\ x[3] >= y[3])
        close == FindSeq(s, Fence, best[3] + 1)
    IN  IF i + 2 > n \/ SubSeq(s, i, i + 2) # Fence \/ cands = {}
        THEN [ok |-> FALSE, block |-> <<>>, next |-> i + 1]
        ELSE [ok |-> TRUE, block |-> SubSeq(s, best[3] + 1, close - 1), next |-> close + 3]

\* re.findall of the fenced blocks of s from index i on
RECURSIVE FencedBlocks(_, _, _)
FencedBlocks(s, i, lang) ==
    IF i > Len(s) THEN <<>>
    ELSE LET m == FenceMatchAt(s, i, lang)
         IN  IF m.ok THEN <<m.block>> \o FencedBlocks(s, m.next, lang)
             ELSE FencedBlocks(s, i + 1, lang)

\* score_block of _normalize_language_output
score_block(block) ==
    LET text == Strip(block)
    IN  IF text = <<>> THEN 0 - 100
        ELSE (IF Contains(text, "RESULT") THEN 10 ELSE 0)
           + (IF Contains(text, "=") THEN 4 ELSE 0)
           + (IF Contains(text, "print(") THEN 2 ELSE 0)
           - (IF Contains(text, "def run_python") THEN 8 ELSE 0)
           + (IF Contains(text, "{") /\ Contains(text, "}") THEN 1 ELSE 0)

\* _normalize_language_output: the fenced blocks to choose from, those tagged
\* with the language first
candidate_blocks(language, normalized) ==
    LET tagged == FencedBlocks(normalized, 1, language)
    IN  IF tagged # <<>> THEN tagged ELSE FencedBlocks(normalized, 1, NoneText)

\* max(blocks, key=score_block): the first block of the highest score
best_block(blocks) ==
    blocks[CHOOSE i \in 1..Len(blocks) :
              /\ \A j \in 1..Len(blocks) : score_block(blocks[j]) <= score_block(blocks[i])
              /\ \A j \in 1..(i - 1) : score_block(blocks[j]) < score_block(blocks[i])]

\* _normalize_language_output: "if fence in normalized"
unfence(normalized, blocks) ==
    IF ContainsSeq(normalized, Fence) /\ blocks # <<>>
    THEN Strip(best_block(blocks))
    ELSE normalized

\* _normalize_language_output: the leading line that only names the language
drop_language_line(language, normalized) ==
    LET lines == SplitLines(normalized)
    IN  IF lines # <<>> /\ Lower(Strip(lines[1])) = Lower(language) /\ Len(lines) > 1
        THEN Strip(JoinLines(Tail(lines)))
        ELSE normalized

\* Agent._normalize_language_output
_normalize_language_output(language, value) ==
    drop_language_line(language,
        unfence(Strip(value), candidate_blocks(language, Strip(value))))

CodeParams == {<<"c", "o", "n", "t", "e", "n", "t">>, <<"c", "o", "d", "e">>}

\* "process_complete" in reasoning.lower()
L_process_complete == <<"p", "r", "o", "c", "e", "s", "s", "_", "c", "o", "m", "p", "l", "e", "t", "e">>

L_language == <<"<", "l", "a", "n", "g", "u", "a", "g", "e", ":">>
L_python == <<"p", "y", "t", "h", "o", "n">>

\* dependency and dependency.is_grammar and
\* dependency.source_name.startswith("<language:")
IsLanguageDependency(dependency) ==
    /\ dependency # NoneObject
    /\ dependency.is_grammar
    /\ StartsWithSeq(dependency.source_name, L_language)

\* The prefixes that the cleanup drops, lowercased
ChattyPrefixes(param_name) ==
    << <<"f", "i", "n", "a", "l", " ", "a", "n", "s", "w", "e", "r", ":">>,
       <<"t", "h", "e", " ", "a", "n", "s", "w", "e", "r", " ", "i", "s", ":">>,
       <<"v", "a", "l", "u", "e", ":">>,
       <<"e", "x", "t", "r", "a", "c", "t", "e", "d", ":">>,
       Lower(param_name) \o <<":">> >>

\* for prefix in [...]: if value.lower().startswith(prefix.lower()): ...
RECURSIVE StripPrefixes(_, _)
StripPrefixes(value, prefixes) ==
    IF prefixes = <<>> THEN value
    ELSE StripPrefixes(
            IF StartsWithSeq(Lower(value), Head(prefixes))
            THEN Strip(SubSeq(value, Len(Head(prefixes)) + 1, Len(value)))
            ELSE value,
            Tail(prefixes))

Min(a, b) == IF a <= b THEN a ELSE b

\* _get_parameter_value, "Clean up the value": the fence and line selection
clean_lines(value, is_complex, is_code, tool_call_count) ==
    LET fl == Split(value, "\n")
        body == IF Len(fl) > 1 /\ StartsWithSeq(Strip(fl[Len(fl)]), Fence)
                THEN SubSeq(fl, 2, Len(fl) - 1) ELSE Tail(fl)
        ls == SelectSeq([i \in 1..Len(fl) |-> Strip(fl[i])], LAMBDA l : l # <<>>)
    IN  IF StartsWithSeq(value, Fence)
        THEN IF Len(fl) > 1
             THEN IF is_complex \/ is_code THEN Strip(JoinLines(body))
                  ELSE IF body # <<>> THEN Strip(body[1]) ELSE <<>>
             ELSE Strip(Remove(value, Fence))
        ELSE IF ~is_code /\ ~is_complex
             THEN IF ls # <<>> THEN ls[Min(tool_call_count, Len(ls) - 1) + 1]
                  ELSE Strip(value)
             ELSE value

\* _get_parameter_value: value.strip('"\'`.:')
strip_marks(value) == StripChars(Strip(value), {"\"", "'", Backtick, ".", ":"})

\* _get_parameter_value: the normalization of code parameters
normalize_code(param_name, value) ==
    IF param_name \in CodeParams THEN _normalize_language_output(L_python, value)
    ELSE value

\* _get_parameter_value: the normalization under a <language:...> dependency
normalize_language(dependency, value) ==
    IF IsLanguageDependency(dependency)
    THEN _normalize_language_output(
            SubSeq(dependency.source_name, Len(L_language) + 1,
                   Len(dependency.source_name) - 1), value)
    ELSE value

\* Agent._get_parameter_value, "Clean up the value" to the language
\* normalization: the cleaned text of a generated value
Normalize(raw, param_name, is_complex, tool_call_count, dependency) ==
    normalize_language(dependency,
        normalize_code(param_name,
            strip_marks(
                StripPrefixes(
                    clean_lines(StripChars(Strip(raw), {"\""}), is_complex,
                                param_name \in CodeParams, tool_call_count),
                    ChattyPrefixes(param_name)))))

\* The number_words table of _get_parameter_value
number_words ==
    { <<"zero", 0>>, <<"one", 1>>, <<"two", 2>>, <<"three", 3>>, <<"four", 4>>,
      <<"five", 5>>, <<"six", 6>>, <<"seven", 7>>, <<"eight", 8>>, <<"nine", 9>>,
      <<"ten", 10>>, <<"eleven", 11>>, <<"twelve", 12>>, <<"thirteen", 13>>,
      <<"fourteen", 14>>, <<"fifteen", 15>>, <<"sixteen", 16>>, <<"seventeen", 17>>,
      <<"eighteen", 18>>, <<"nineteen", 19>>, <<"twenty", 20>>, <<"twenty-one", 21>>,
      <<"twenty-two", 22>>, <<"twenty-three", 23>>, <<"twenty-four", 24>>,
      <<"twenty-five", 25>>, <<"twenty-six", 26>>, <<"twenty-seven", 27>>,
      <<"twenty-eight", 28>>, <<"twenty-nine", 29>>, <<"thirty", 30>>,
      <<"thirty-one", 31>>, <<"thirty-two", 32>>, <<"forty", 40>>, <<"forty-five", 45>>,
      <<"fifty", 50>>, <<"fifty-seven", 57>>, <<"sixty", 60>>, <<"sixty-two", 62>>,
      <<"seventy", 70>>, <<"eighty", 80>>, <<"ninety", 90>>, <<"hundred", 100>> }

\* re.search(r'\d+', value): the first run of digits, <<>> when there is none
FirstDigitRun(value) ==
    LET at == {i \in 1..Len(value) : value[i] \in Digits}
    IN  IF at = {} THEN <<>>
        ELSE LET i == CHOOSE k \in at : \A j \in at : k <= j
             IN  TakeWhile(SubSeq(value, i, Len(value)), Digits)

\* A faulty int branch: the number_words table is not consulted
CoerceInt_NoWords(value) ==
    LET direct == IntParse(value)
        run == FirstDigitRun(value)
    IN  IF direct.ok THEN [ok |-> TRUE, v |-> Int_(direct.v)]
        ELSE IF run # <<>> THEN [ok |-> TRUE, v |-> Int_(DigitsValue(run))]
        ELSE [ok |-> FALSE, v |-> Str(value)]

\* The int branch: [ok, v]
CoerceInt(value) ==
    LET direct == IntParse(value)
        value_lower == Join(Strip(Lower(value)))
        words == {w \in number_words : w[1] = value_lower}
        run == FirstDigitRun(value)
    IN  IF direct.ok THEN [ok |-> TRUE, v |-> Int_(direct.v)]
        ELSE IF words # {} THEN [ok |-> TRUE, v |-> Int_((CHOOSE w \in words : TRUE)[2])]
        ELSE IF run # <<>> THEN [ok |-> TRUE, v |-> Int_(DigitsValue(run))]
        ELSE [ok |-> FALSE, v |-> Str(value)]

\* The end (exclusive, from 0 as in the code) of the bracket-balanced span that
\* starts value, 0 when the brackets do not close
RECURSIVE BracketEnd(_, _, _)
BracketEnd(value, i, bracket_count) ==
    IF i > Len(value) THEN 0
    ELSE IF value[i] = "[" THEN BracketEnd(value, i + 1, bracket_count + 1)
    ELSE IF value[i] = "]"
    THEN (IF bracket_count - 1 = 0 THEN i
          ELSE BracketEnd(value, i + 1, bracket_count - 1))
    ELSE BracketEnd(value, i + 1, bracket_count)

\* The text the list branch hands to json.loads
ListSpan(value) ==
    LET start_idx == Find(value, "[")
        v1 == IF start_idx # 0 THEN SubSeq(value, start_idx, Len(value)) ELSE value
        json_end == IF StartsWithSeq(Strip(v1), <<"[">>) THEN BracketEnd(v1, 1, 0) ELSE 0
    IN  IF json_end > 0 THEN SubSeq(v1, 1, json_end) ELSE v1

\* [v.strip() for v in value.split(',') if v.strip()]
CommaSplit(value) ==
    LET parts == Split(value, ",")
    IN  List(SelectSeq([i \in 1..Len(parts) |-> Str(Strip(parts[i]))],
                       LAMBDA x : x.v # <<>>))

\* The list branch, for an element type that is no pydantic model: [ok, v],
\* where ok tells whether json.loads returned
ListResult(parsed, span) ==
    IF parsed.ok THEN [ok |-> TRUE, v |-> parsed.v]
    ELSE [ok |-> FALSE, v |-> CommaSplit(span)]

SpanResult(span) == ListResult(json_loads(span), span)

CoerceList(value) == SpanResult(ListSpan(value))

\* The float and dict branches: on an exception the value stays the string
OrOriginal(parsed, value) ==
    IF parsed.ok THEN [ok |-> TRUE, v |-> parsed.v]
    ELSE [ok |-> FALSE, v |-> Str(value)]

\* A faulty _get_parameter_value: the exception of a failed conversion leaves
\* the function
Returned_Raising(converted) ==
    [v |-> converted.v, failed |-> ~converted.ok, raised |-> ~converted.ok]

\* What _get_parameter_value returns: the value, whether a conversion failed
\* (a ghost), and whether an exception leaves the function
Returned(converted) == [v |-> converted.v, failed |-> ~converted.ok, raised |-> FALSE]

\* 'int' in type_name.lower() and the like
TypeIs(annotation, word) == ContainsSeq(Lower(annotation), word)

\* The conversion branch that the annotation selects
TypeBranch(annotation) ==
    IF TypeIs(annotation, <<"i", "n", "t">>) THEN "int"
    ELSE IF TypeIs(annotation, <<"f", "l", "o", "a", "t">>) THEN "float"
    ELSE IF TypeIs(annotation, <<"b", "o", "o", "l">>) THEN "bool"
    ELSE IF TypeIs(annotation, <<"l", "i", "s", "t">>) THEN "list"
    ELSE IF TypeIs(annotation, <<"d", "i", "c", "t">>) THEN "dict"
    ELSE "str"

\* Agent._get_parameter_value, "Convert type based on parameter annotation":
\* [v, failed, raised], v the value returned, failed whether a conversion
\* failed, raised whether an exception leaves the function
Coerce(annotation, value) ==
    LET branch == TypeBranch(annotation)
    IN  CASE branch = "int" -> Returned(CoerceInt(value))
          [] branch = "float" -> Returned(OrOriginal(FloatParse(value), value))
          [] branch = "bool" ->
                Returned([ok |-> TRUE,
                          v |-> Bool(Join(Lower(value)) \in {"true", "1", "yes"})])
          [] branch = "list" -> Returned(CoerceList(value))
          [] branch = "dict" -> Returned(OrOriginal(json_loads(value), value))
          [] OTHER -> Returned([ok |-> TRUE, v |-> Str(value)])

\* The parameter of a descriptor by name, None when it has none
ParamOf(tool, param_name) ==
    IF tool = NoneObject THEN NoneObject
    ELSE LET ps == tool.parameters
             hit == {i \in 1..Len(ps) : ps[i].name = param_name}
         IN  IF hit = {} THEN NoneObject ELSE ps[CHOOSE i \in hit : TRUE]

(***************************************************************************)
(* agent.py: run().  run() is a coroutine that is suspended only while a   *)
(* generation call is awaited; pc names the call it awaits.  The code      *)
(* between two awaits is one step.  The operators below take and return    *)
(* the agent's state as a record m (with the grammar memo, which the       *)
(* agent's calls of the grammar generator update).                         *)
(***************************************************************************)
Awaiting == {"reason", "rereason", "select", "param"}

NoReq == [grammar |-> NoneText, param_name |-> <<>>, is_complex |-> FALSE,
          tool_call_count |-> 0, dependency |-> NoneObject]
NoSel == [tool_name |-> <<>>, tool |-> NoneObject, idx |-> 0, kwargs |-> <<>>, raws |-> <<>>]
\* ghost: gen and selects count the generation calls and the selection calls of
\* the run; envOps and regChanged tell of registry changes by other tasks during
\* it; failed names what made run() raise; hadTools is the outcome of run()'s
\* "if not tools" check; calls counts the tool invocations; lastSelect and before
\* describe the step that led to the current state
NoObs == [gen |-> 0, selects |-> 0, calls |-> 0, envOps |-> 0, regChanged |-> FALSE,
          failed |-> None, hadTools |-> FALSE,
          lastSelect |-> NoneObject,
          before |-> [history |-> 0, iteration |-> 0, calls |-> 0]]

Turn(role, content) == [role |-> role, content |-> content]

\* len([h for h in self.conversation_history if h.get("role") == "ToolResult"])
ToolResultCount(h) == Cardinality({i \in 1..Len(h) : h[i].role = "ToolResult"})

\* f"Completed {tool_call_count} tool calls"
Summary(n) == "Completed " \o ToString(n) \o " tool calls"

\* A faulty run(): the content of the last turn is returned
Finish_LastTurn(m) ==
    [m EXCEPT !.pc = "returned",
              !.retval = m.history[Len(m.history)].content,
              !.req = NoReq, !.sel = NoSel]

\* run(): "After all iterations, return a summary"
Finish(m) ==
    [m EXCEPT !.pc = "returned",
              !.retval = Summary(ToolResultCount(m.history)),
              !.req = NoReq, !.sel = NoSel]

\* The generation call goes out: run() is suspended at pc
Issue(m, at, request) ==
    [m EXCEPT !.pc = at, !.req = request, !.obs.gen = @ + 1]

\* _select_tool, to its generation call
IssueSelect(m, t) ==
    LET g == generate_tools_grammar(t, m.memo, m.cfg.allow_no_tool)
        m1 == [m EXCEPT !.memo = g.memo, !.sel = NoSel]
    IN  IF DOMAIN t = {}
        THEN Finish(m1)
        ELSE Issue([m1 EXCEPT !.obs.selects = @ + 1], "select",
                   [NoReq EXCEPT !.grammar = g.grammar])

\* A faulty run(): the loop runs one iteration more than max_iterations
LoopTop_OneMore(m, t) ==
    IF m.iteration > m.cfg.max_iterations THEN Finish(m)
    ELSE IF m.iteration > 0 THEN Issue([m EXCEPT !.sel = NoSel], "rereason", NoReq)
    ELSE IssueSelect(m, t)

\* run(): the head of "for iteration in range(self.max_iterations)", with the
\* re-reasoning call of the iterations after the first
LoopTop(m, t) ==
    IF m.iteration >= m.cfg.max_iterations THEN Finish(m)
    ELSE IF m.iteration > 0 THEN Issue([m EXCEPT !.sel = NoSel], "rereason", NoReq)
    ELSE IssueSelect(m, t)

\* run(): "Add result to history", and on to the next iteration
AppendResult(m, t, tool_name, result) ==
    LoopTop([m EXCEPT !.history = Append(@, Turn("ToolResult",
                                    Join(tool_name) \o ": " \o result)),
                      !.iteration = @ + 1],
            t)

\* A faulty _execute_tool: the tool function is called outside try/except
Invoke_Uncaught(m, t, outcome) ==
    IF outcome.raises
    THEN [m EXCEPT !.pc = "raised", !.req = NoReq, !.sel = NoSel,
                   !.call = [tool |-> m.sel.tool.func, name |-> m.sel.tool_name,
                             params |-> <<>>, kwargs |-> m.sel.kwargs,
                             raws |-> m.sel.raws, raised |-> TRUE, result |-> ""],
                   !.obs.calls = @ + 1, !.obs.failed = "tool"]
    ELSE AppendResult([m EXCEPT !.call = [tool |-> m.sel.tool.func,
                                          name |-> m.sel.tool_name,
                                          params |-> <<>>, kwargs |-> m.sel.kwargs,
                                          raws |-> m.sel.raws, raised |-> FALSE,
                                          result |-> outcome.text],
                                !.obs.calls = @ + 1],
                      t, m.sel.tool_name, outcome.text)

\* _execute_tool: "Execute the tool".  outcome is what the tool function does
\* with the arguments: [raises, text]
Invoke(m, t, outcome) ==
    LET result == IF outcome.raises
                  THEN "Error executing tool: " \o outcome.text
                  ELSE outcome.text
        made == [tool |-> m.sel.tool.func, name |-> m.sel.tool_name,
                 params |-> [i \in 1..Len(m.sel.tool.parameters) |->
                                m.sel.tool.parameters[i].name],
                 kwargs |-> m.sel.kwargs, raws |-> m.sel.raws,
                 raised |-> outcome.raises, result |-> result]
    IN  AppendResult([m EXCEPT !.call = made, !.obs.calls = @ + 1],
                     t, m.sel.tool_name, result)

\* _get_parameter_value, to its generation call: the request made for the
\* parameter, and the grammar memo after it
ParameterRequest(t, ls, memo, h, tool_name, param_name) ==
    LET pg == generate_parameter_grammar(t, ls, memo, tool_name, param_name)
        tool == get_tool(t, tool_name)
        param == ParamOf(tool, param_name)
        branch == IF param = NoneObject THEN "str" ELSE TypeBranch(param.annotation)
        param_grammar ==
            IF pg.grammar # NoneText /\ pg.grammar # <<>> THEN pg.grammar
            ELSE IF param = NoneObject THEN NoneText
            ELSE CASE branch = "int" -> G_int
                   [] branch = "float" -> G_float
                   [] branch = "bool" -> G_bool
                   [] OTHER -> pg.grammar
        is_complex ==
            /\ param # NoneObject
            /\ (TypeIs(param.annotation, <<"l", "i", "s", "t">>)
                \/ TypeIs(param.annotation, <<"d", "i", "c", "t">>))
        dependency == IF tool = NoneObject THEN NoneObject ELSE get_dependency(tool, param_name)
        use_grammar ==
            /\ param_grammar # NoneText /\ param_grammar # <<>>
            /\ ~(param_name \in CodeParams /\ IsLanguageDependency(dependency))
    IN  [req |-> [grammar |-> IF use_grammar THEN param_grammar ELSE NoneText,
                  param_name |-> param_name,
                  is_complex |-> is_complex,
                  tool_call_count |-> ToolResultCount(h),
                  dependency |-> dependency],
         memo |-> pg.memo]

\* _get_parameter_value, to its generation call, for parameter idx of the
\* selected tool
IssueParam(m, t, ls) ==
    LET r == ParameterRequest(t, ls, m.memo, m.history, m.sel.tool_name,
                              m.sel.tool.parameters[m.sel.idx].name)
    IN  Issue([m EXCEPT !.memo = r.memo], "param", r.req)

\* A faulty _execute_tool: the loop over tool.parameters ends one parameter
\* early
NextParam_SkipLast(m, t, ls, outcome) ==
    IF m.sel.idx >= Len(m.sel.tool.parameters)
    THEN Invoke(m, t, outcome)
    ELSE IssueParam(m, t, ls)

\* _execute_tool: the loop over tool.parameters, at parameter idx
NextParam(m, t, ls, outcome) ==
    IF m.sel.idx > Len(m.sel.tool.parameters)
    THEN Invoke(m, t, outcome)
    ELSE IssueParam(m, t, ls)

\* A faulty _execute_tool: the descriptor is used without the "if not tool"
\* check
ExecuteTool_Unchecked(m, t, ls, tool_name, outcome) ==
    IF tool_name \notin DOMAIN t
    THEN [m EXCEPT !.pc = "raised", !.req = NoReq, !.sel = NoSel,
                   !.obs.failed = "lookup"]
    ELSE NextParam([m EXCEPT !.sel = [tool_name |-> tool_name, tool |-> t[tool_name],
                                     idx |-> 1, kwargs |-> <<>>, raws |-> <<>>]],
                   t, ls, outcome)

\* _execute_tool, from its start
ExecuteTool(m, t, ls, tool_name, outcome) ==
    LET tool == get_tool(t, tool_name)
    IN  IF tool = NoneObject
        THEN AppendResult(m, t, tool_name, "Error: Tool " \o Join(tool_name) \o " not found")
        ELSE NextParam([m EXCEPT !.sel = [tool_name |-> tool_name, tool |-> tool,
                                         idx |-> 1, kwargs |-> <<>>, raws |-> <<>>]],
                       t, ls, outcome)

\* A faulty _select_tool: the "NONE" check is missing
AfterSelect_NoSentinel(m, t, ls, out, outcome) ==
    ExecuteTool([m EXCEPT !.obs.lastSelect =
                    [out |-> out,
                     to |-> IF StripChars(Strip(out), {"\""}) \in DOMAIN t
                            THEN "EXTRACT_PARAMS" ELSE "NOT_FOUND"]],
                t, ls, StripChars(Strip(out), {"\""}), outcome)

\* _select_tool after its generation call, and run() on its result
AfterSelect(m, t, ls, out, outcome) ==
    LET tool_name == StripChars(Strip(out), {"\""})
        stop == tool_name = N_NONE \/ tool_name = <<>>
        found == tool_name \in DOMAIN t
        m1 == [m EXCEPT !.obs.lastSelect =
                  [out |-> out,
                   to |-> IF stop THEN "STOP"
                          ELSE IF found THEN "EXTRACT_PARAMS" ELSE "NOT_FOUND"]]
    IN  IF stop THEN Finish(m1) ELSE ExecuteTool(m1, t, ls, tool_name, outcome)

\* _execute_tool with the value _get_parameter_value returned
Extracted(m, t, ls, out, outcome, value, c) ==
    IF c.raised
    THEN [m EXCEPT !.pc = "raised", !.req = NoReq, !.sel = NoSel,
                   !.obs.failed = "coercion"]
    ELSE NextParam([m EXCEPT !.sel.kwargs = Append(@, c.v),
                             !.sel.raws = Append(@, [param_name |-> m.req.param_name,
                                                      text |-> value,
                                                      failed |-> c.failed,
                                                      grammar |-> m.req.grammar,
                                                      dependency |-> m.req.dependency,
                                                      generated |-> out]),
                             !.sel.idx = @ + 1],
                   t, ls, outcome)

\* _get_parameter_value, the conversion of the cleaned text
Converted(m, t, ls, out, outcome, value) ==
    Extracted(m, t, ls, out, outcome, value,
              LET param == ParamOf(get_tool(t, m.sel.tool_name), m.req.param_name)
              IN  IF param = NoneObject THEN Returned([ok |-> TRUE, v |-> Str(value)])
                  ELSE Coerce(param.annotation, value))

\* _get_parameter_value after its generation call, and _execute_tool on its
\* result
AfterParam(m, t, ls, out, outcome) ==
    Converted(m, t, ls, out, outcome,
              Normalize(out, m.req.param_name, m.req.is_complex,
                        m.req.tool_call_count, m.req.dependency))

\* A faulty run(): the "if not tools" check is missing
AfterReason_NoCheck(m, t, text) ==
    LoopTop([m EXCEPT !.reasoning = text,
                      !.history = IF text # <<>>
                                  THEN Append(@, Turn("Reasoning", Join(text)))
                                  ELSE @,
                      !.obs.hadTools = (DOMAIN t # {}),
                      !.iteration = 0],
            t)

\* run() after the first reasoning call (or without it)
AfterReason(m, t, text) ==
    LET m1 == [m EXCEPT !.reasoning = text,
                        !.history = IF text # <<>>
                                    THEN Append(@, Turn("Reasoning", Join(text)))
                                    ELSE @,
                        !.obs.hadTools = (DOMAIN t # {})]
    IN  IF DOMAIN t = {}
        THEN [m1 EXCEPT !.pc = "returned", !.retval = Join(text), !.req = NoReq]
        ELSE LoopTop([m1 EXCEPT !.iteration = 0], t)

\* A faulty run(): the re-reasoning text is not searched for the marker
AfterRereason_IgnoreMarker(m, t, text) ==
    IssueSelect([m EXCEPT !.reasoning = text,
                          !.history = Append(@, Turn("Reasoning", Join(Strip(text))))],
                t)

\* run() after the re-reasoning call
AfterRereason(m, t, text) ==
    LET m1 == [m EXCEPT !.reasoning = text,
                        !.history = Append(@, Turn("Reasoning", Join(Strip(text))))]
    IN  IF ContainsSeq(Lower(Strip(text)), L_process_complete)
        THEN Finish(m1)
        ELSE IssueSelect(m1, t)

\* run(), to its first generation call
BeginRun(m, t, user_message) ==
    LET m1 == [m EXCEPT !.history = Append(@, Turn("User", user_message)),
                        !.iteration = 0, !.reasoning = <<>>, !.retval = None,
                        !.req = NoReq, !.sel = NoSel, !.call = NoneObject,
                        !.obs = [NoObs EXCEPT !.envOps = m.obs.envOps],
                        !.runs = @ + 1]
    IN  IF m.cfg.reasoning_tokens <= 0
        THEN AfterReason(m1, t, <<>>)
        ELSE Issue(m1, "reason", NoReq)

(***************************************************************************)
(* The state machine.                                                      *)
(***************************************************************************)
\* The agent's state and the grammar memo as one record
M ==
    [cfg |-> cfg, history |-> history, pc |-> pc, iteration |-> iteration,
     reasoning |-> reasoning, req |-> req, sel |-> sel, retval |-> retval,
     runs |-> runs, call |-> NoneObject,
     obs |-> [obs EXCEPT !.lastSelect = NoneObject,
                         !.before = [history |-> Len(history),
                                     iteration |-> iteration,
                                     calls |-> obs.calls]],
     memo |-> Memo(cache, hashes)]

Commit(m) ==
    /\ cfg' = m.cfg /\ history' = m.history /\ pc' = m.pc
    /\ iteration' = m.iteration /\ reasoning' = m.reasoning /\ req' = m.req
    /\ sel' = m.sel /\ retval' = m.retval /\ runs' = m.runs /\ call' = m.call
    /\ obs' = m.obs /\ cache' = m.memo.cache /\ hashes' = m.memo.hashes
    /\ UNCHANGED auxVars

\* Texts the backend returns for the reasoning calls
ReasoningTexts ==
    { <<" ", "g", "o">>,
      <<"P", "R", "O", "C", "E", "S", "S", "_", "C", "O", "M", "P", "L", "E", "T", "E">> }

\* What a tool function does when it is called
ToolOutcomes == { [raises |-> FALSE, text |-> "ok"], [raises |-> TRUE, text |-> "boom"] }

\* The texts the backend may return for the request in flight
Outputs == IF req.grammar = NoneText THEN FreeTexts ELSE Language(req.grammar)

\* The declarations of one tool function: the @depends under @tool first, then
\* @tool
DependenciesOf(fid) ==
    [i \in 1..Len(Decorations[fid]) |->
        ParameterDependency(Decorations[fid][i][1], Decorations[fid][i][2],
                            <<"v">>, FALSE)]

RECURSIVE AddDependencies(_, _, _)
AddDependencies(reg, func_name, deps) ==
    IF deps = <<>> THEN reg
    ELSE AddDependencies(add_dependency(reg, func_name, Head(deps)),
                         func_name, Tail(deps))

Declare(reg, fid) ==
    register_tool(AddDependencies(reg, Functions[fid].name, DependenciesOf(fid)), fid)

RECURSIVE DeclareAll(_, _)
DeclareAll(reg, fids) ==
    IF fids = {} THEN reg
    ELSE LET f == CHOOSE x \in fids : TRUE
         IN  DeclareAll(Declare(reg, f), fids \ {f})

\* The keys of registry._tools after the declarations of DeclareAll
RECURSIVE DeclareOrder(_, _)
DeclareOrder(keys, fids) ==
    IF fids = {} THEN keys
    ELSE LET f == CHOOSE x \in fids : TRUE
         IN  DeclareOrder(keys_after_set(keys, Functions[f].name), fids \ {f})

\* ghost: nothing was generated or declared yet
NoSeen == [grammars |-> <<>>, snapshots |-> <<>>, calls |-> 0, mutations |-> 0, read |-> {},
           ids |-> <<>>, objects |-> 0]

\* ghost: the dependencies declared for each name
Declared(d, func_name, deps) ==
    [n \in DOMAIN d \cup {func_name} |->
        IF n = func_name THEN (IF n \in DOMAIN d THEN d[n] ELSE <<>>) \o deps ELSE d[n]]

\* The tool modules an application imports
Catalogues == { {}, {"filter"}, {"filter", "cnt"}, {"filter", "cnt", "NONE"} }

Configs ==
    [max_iterations : 0..MaxIterations, allow_no_tool : BOOLEAN,
     reasoning_tokens : {0, 50}]

\* An Agent is constructed after the tool modules were imported
Init ==
    \E fids \in Catalogues, c \in Configs :
        /\ tools = DeclareAll(clear_registry, fids).tools
        /\ pending = DeclareAll(clear_registry, fids).pending
        /\ order = DeclareOrder(<<>>, fids)
        /\ seen = NoSeen /\ arg = NoneText /\ ret = NoneObject /\ files = <<>> /\ threads = <<>>
        /\ lists = InitialLists
        /\ cache = <<>> /\ hashes = <<>>
        /\ declared = [n \in {Functions[f].name : f \in fids} |->
                          DependenciesOf(CHOOSE f \in fids : Functions[f].name = n)]
        /\ cfg = c
        /\ history = <<>> /\ pc = "idle" /\ iteration = 0 /\ reasoning = <<>>
        /\ req = NoReq /\ sel = NoSel /\ retval = None /\ runs = 0
        /\ call = NoneObject /\ obs = NoObs

\* await agent.run(user_message), to the first generation call
StartRun ==
    /\ pc \notin Awaiting
    /\ runs < MaxRuns
    /\ Len(history) < MaxHistory
    /\ Commit(BeginRun(M, tools, "m"))
    /\ UNCHANGED regVars

\* a generation call returns
ReasonResponse ==
    /\ pc = "reason"
    /\ \E text \in ReasoningTexts : Commit(AfterReason(M, tools, Strip(text)))
    /\ UNCHANGED regVars

RereasonResponse ==
    /\ pc = "rereason"
    /\ \E text \in ReasoningTexts : Commit(AfterRereason(M, tools, text))
    /\ UNCHANGED regVars

SelectResponse ==
    /\ pc = "select"
    /\ \E out \in Outputs, outcome \in ToolOutcomes :
          Commit(AfterSelect(M, tools, lists, out, outcome))
    /\ UNCHANGED regVars

ParamResponse ==
    /\ pc = "param"
    /\ \E out \in Outputs, outcome \in ToolOutcomes :
          Commit(AfterParam(M, tools, lists, out, outcome))
    /\ UNCHANGED regVars

\* A faulty _reason: the exception of the generation call is caught and the
\* reasoning is taken to be empty
TransportFailure_Swallowed ==
    /\ pc = "reason"
    /\ Commit(AfterReason([M EXCEPT !.obs.failed = "transport"], tools, <<>>))
    /\ UNCHANGED regVars

\* a generation call fails: _complete logs and re-raises, and nothing on the
\* way up catches
TransportFailure ==
    /\ pc \in Awaiting
    /\ Commit([M EXCEPT !.pc = "raised", !.req = NoReq, !.sel = NoSel,
                        !.obs.failed = "transport"])
    /\ UNCHANGED regVars

\* Another task changes the registry while run() is suspended
EnvClear ==
    /\ pc \in Awaiting
    /\ obs.envOps < MaxEnvOps
    /\ tools' = clear_registry.tools
    /\ pending' = clear_registry.pending
    /\ order' = <<>>
    /\ declared' = <<>>
    /\ obs' = [obs EXCEPT !.envOps = @ + 1, !.regChanged = TRUE,
                          !.lastSelect = NoneObject]
    /\ call' = NoneObject
    /\ UNCHANGED <<lists, cache, hashes, cfg, history, pc, iteration, reasoning,
                   req, sel, retval, runs, auxVars>>

EnvDeclare ==
    /\ pc \in Awaiting
    /\ obs.envOps < MaxEnvOps
    /\ \E fid \in FunctionIds :
          /\ tools' = Declare(Registry(tools, pending), fid).tools
          /\ pending' = Declare(Registry(tools, pending), fid).pending
          /\ order' = keys_after_set(order, Functions[fid].name)
          /\ declared' = Declared(declared, Functions[fid].name, DependenciesOf(fid))
    /\ obs' = [obs EXCEPT !.envOps = @ + 1, !.regChanged = TRUE,
                          !.lastSelect = NoneObject]
    /\ call' = NoneObject
    /\ UNCHANGED <<lists, cache, hashes, cfg, history, pc, iteration,
                   reasoning, req, sel, retval, runs, auxVars>>

AgentStep ==
    \/ TransportFailure
    \/ ReasonResponse \/ RereasonResponse \/ SelectResponse \/ ParamResponse

Next == StartRun \/ AgentStep \/ EnvClear \/ EnvDeclare

Spec == Init /\ [][Next]_vars

\* Every generation call that is awaited ends, by returning or by raising
FairSpec == Spec /\ WF_vars(AgentStep)

(***************************************************************************)
(* The registry on its own: the module-level registry object under the     *)
(* calls that decorators and applications make on it.                      *)
(***************************************************************************)
\* The dependencies that add_dependency calls declare
DepChoices ==
    { ParameterDependency(P_column, "COLUMNS", <<"v">>, FALSE),
      ParameterDependency(P_n, "WORDS", <<"v">>, FALSE) }

RECURSIVE CountDeclared(_, _)
CountDeclared(d, names) ==
    IF names = {} THEN 0
    ELSE LET n == CHOOSE x \in names : TRUE
         IN  Len(d[n]) + CountDeclared(d, names \ {n})

InitRegistry ==
    /\ tools = clear_registry.tools
    /\ pending = clear_registry.pending
    /\ order = <<>>
    /\ seen = NoSeen /\ arg = NoneText /\ ret = NoneObject /\ files = <<>> /\ threads = <<>>
    /\ lists = InitialLists
    /\ cache = <<>> /\ hashes = <<>>
    /\ declared = <<>>
    /\ cfg = NoneObject
    /\ history = <<>> /\ pc = "idle" /\ iteration = 0 /\ reasoning = <<>>
    /\ req = NoReq /\ sel = NoSel /\ retval = None /\ runs = 0
    /\ call = NoneObject /\ obs = NoObs

\* ghost: a call on the registry: its name, the tool name and dependency it
\* was given, and whether the pending area held the name when it was made
RegistryCall(op, name, dependency) ==
    [op |-> op, name |-> name, dependency |-> dependency,
     was_pending |-> name \in DOMAIN pending,
     was_registered |-> name \in DOMAIN tools]

\* registry.register_tool(func)
RegisterTool ==
    /\ \E fid \in FunctionIds :
          /\ tools' = register_tool(Registry(tools, pending), fid).tools
          /\ pending' = register_tool(Registry(tools, pending), fid).pending
          /\ order' = keys_after_set(order, Functions[fid].name)
          /\ call' = RegistryCall("register_tool", Functions[fid].name, NoneObject)
    /\ UNCHANGED <<lists, cacheVars, declared, agentRest, auxVars>>

\* registry.add_dependency(func_name, ...)
AddDependency ==
    /\ CountDeclared(declared, DOMAIN declared) < MaxDeclared
    /\ \E fid \in FunctionIds, dependency \in DepChoices :
          /\ tools' = add_dependency(Registry(tools, pending),
                                     Functions[fid].name, dependency).tools
          /\ pending' = add_dependency(Registry(tools, pending),
                                       Functions[fid].name, dependency).pending
          /\ declared' = Declared(declared, Functions[fid].name, <<dependency>>)
          /\ call' = RegistryCall("add_dependency", Functions[fid].name, dependency)
    /\ UNCHANGED <<order, lists, cacheVars, agentRest, auxVars>>

\* registry.clear()
Clear ==
    /\ tools' = clear_registry.tools
    /\ pending' = clear_registry.pending
    /\ declared' = <<>>
    /\ order' = <<>>
    /\ call' = RegistryCall("clear", <<>>, NoneObject)
    /\ UNCHANGED <<lists, cacheVars, agentRest, auxVars>>

NextRegistry == RegisterTool \/ AddDependency \/ Clear

SpecRegistry == InitRegistry /\ [][NextRegistry]_vars

(***************************************************************************)
(* The registry and the grammar generator under the calls of an            *)
(* application that declares tools, changes its lists in place and asks    *)
(* for grammars.                                                           *)
(***************************************************************************)
MaxGrammarCalls == 2    \* generate_*_grammar calls
MaxMutations == 1       \* in-place changes of a list
MaxDepends == 2         \* add_dependency calls between two clear() calls
MaxLiteralLen == 3      \* characters of an argument of _escape_string

GrammarFunctionIds == {"filter", "cnt"}

\* depends_grammar(val='root ::= "x"')
G_raw == G_root \o <<"\"", "x", "\"">>

\* The dependencies the decorators on each function declare
Depends ==
    { [fid |-> "filter", dependency |-> ParameterDependency(P_column, "COLUMNS", <<"v">>, FALSE)],
      [fid |-> "filter", dependency |-> ParameterDependency(P_value, G_raw, <<"g">>, TRUE)],
      [fid |-> "cnt", dependency |-> ParameterDependency(P_n, "PATHS", <<"v">>, FALSE)] }

\* What append, remove, clear and reverse make of each list
ListContents ==
    [COLUMNS |-> { << <<"a">>, <<"b", ".">> >>, << <<"b", ".">>, <<"a">> >>, <<>>,
                   << <<"a">>, <<"b", ".">>, <<"\\", "\"">> >> },
     PATHS   |-> { << <<"p">> >>, << <<"p">>, <<"q">> >> }]

\* ghost: the values of the dependency's list when the first dependency of
\* the parameter was declared
Snapshot(snapshots, name, dependency, ls) ==
    IF dependency.is_grammar \/ <<name, dependency.param_name>> \in DOMAIN snapshots
    THEN snapshots
    ELSE [k \in DOMAIN snapshots \cup {<<name, dependency.param_name>>} |->
            IF k \in DOMAIN snapshots THEN snapshots[k]
            ELSE ls[dependency.source_object]]

\* ghost: the first grammar returned for a set of names and allow_none, and
\* the order of the registry's keys then
FirstGrammar(grammars, names, keys, allow_none, grammar) ==
    IF <<names, allow_none>> \in DOMAIN grammars THEN grammars
    ELSE [k \in DOMAIN grammars \cup {<<names, allow_none>>} |->
            IF k \in DOMAIN grammars THEN grammars[k]
            ELSE [grammar |-> grammar, keys |-> keys]]

InitGrammar ==
    /\ tools = clear_registry.tools
    /\ pending = clear_registry.pending
    /\ order = <<>>
    /\ seen = NoSeen /\ arg = NoneText /\ ret = NoneObject /\ files = <<>> /\ threads = <<>>
    /\ lists = InitialLists
    /\ cache = <<>> /\ hashes = <<>>
    /\ declared = <<>>
    /\ cfg = NoneObject
    /\ history = <<>> /\ pc = "idle" /\ iteration = 0 /\ reasoning = <<>>
    /\ req = NoReq /\ sel = NoSel /\ retval = None /\ runs = 0
    /\ call = NoneObject /\ obs = NoObs

\* @tool on a function
ApplyTool ==
    /\ \E fid \in GrammarFunctionIds :
          /\ tools' = register_tool(Registry(tools, pending), fid).tools
          /\ pending' = register_tool(Registry(tools, pending), fid).pending
          /\ order' = keys_after_set(order, Functions[fid].name)
          /\ call' = NoneObject
    /\ UNCHANGED <<lists, cacheVars, declared, agentRest, auxVars>>

\* @depends(...) or @depends_grammar(...) on a function
ApplyDepends ==
    /\ CountDeclared(declared, DOMAIN declared) < MaxDepends
    /\ \E d \in Depends :
          LET name == Functions[d.fid].name
          IN  /\ tools' = add_dependency(Registry(tools, pending), name, d.dependency).tools
              /\ pending' = add_dependency(Registry(tools, pending), name, d.dependency).pending
              /\ declared' = Declared(declared, name, <<d.dependency>>)
              /\ seen' = [seen EXCEPT !.snapshots = Snapshot(@, name, d.dependency, lists)]
              /\ call' = NoneObject
    /\ UNCHANGED <<order, lists, cacheVars, agentRest, arg, ret, files, threads>>

\* registry.clear()
ClearRegistry ==
    /\ tools' = clear_registry.tools
    /\ pending' = clear_registry.pending
    /\ declared' = <<>>
    /\ order' = <<>>
    /\ seen' = [seen EXCEPT !.snapshots = <<>>]
    /\ call' = NoneObject
    /\ UNCHANGED <<lists, cacheVars, agentRest, arg, ret, files, threads>>

\* The application changes a list in place
MutateList ==
    /\ seen.mutations < MaxMutations
    /\ \E id \in DOMAIN ListContents :
          \E contents \in ListContents[id] \ {lists[id]} :
              lists' = [lists EXCEPT ![id] = contents]
    /\ seen' = [seen EXCEPT !.mutations = @ + 1]
    /\ call' = NoneObject
    /\ UNCHANGED <<tools, pending, order, declared, cacheVars, agentRest, arg, ret, files, threads>>

\* grammar_generator.generate_tools_grammar(allow_none)
GenerateToolsGrammar ==
    /\ seen.calls < MaxGrammarCalls
    /\ \E allow_none \in BOOLEAN :
          LET r == generate_tools_grammar(tools, Memo(cache, hashes), allow_none)
          IN  /\ cache' = r.memo.cache /\ hashes' = r.memo.hashes
              /\ call' = [op |-> "generate_tools_grammar", allow_none |-> allow_none,
                          grammar |-> r.grammar]
              /\ seen' = [seen EXCEPT
                             !.calls = @ + 1,
                             !.grammars = FirstGrammar(@, DOMAIN tools, order,
                                                       allow_none, r.grammar)]
    /\ UNCHANGED <<regVars, agentRest, arg, ret, files, threads>>

\* grammar_generator.generate_parameter_grammar(tool_name, param_name)
GenerateParameterGrammar ==
    /\ seen.calls < MaxGrammarCalls
    /\ \E d \in Depends :
              LET tool_name == Functions[d.fid].name
                  param_name == d.dependency.param_name
                  r == generate_parameter_grammar(tools, lists, Memo(cache, hashes),
                                                  tool_name, param_name)
              IN  /\ cache' = r.memo.cache /\ hashes' = r.memo.hashes
                  /\ call' = [op |-> "generate_parameter_grammar",
                              tool_name |-> tool_name, param_name |-> param_name,
                              grammar |-> r.grammar]
    /\ seen' = [seen EXCEPT !.calls = @ + 1, !.read = @ \cup {lists}]
    /\ UNCHANGED <<regVars, agentRest, arg, ret, files, threads>>

NextGrammar ==
    \/ ApplyTool \/ ApplyDepends \/ ClearRegistry \/ MutateList
    \/ GenerateToolsGrammar \/ GenerateParameterGrammar

SpecGrammar == InitGrammar /\ [][NextGrammar]_vars

(***************************************************************************)
(* Properties.                                                             *)
(***************************************************************************)
\* The values of the list that an enumerated dependency names
EnumeratedValues(dependency) == {Str(v) : v \in Range(lists[dependency.source_object])}

\* The parameter i of the invocation in call is declared str, and its text was
\* generated under the grammar of an enumerated dependency over a list that is
\* not empty, and is a text of that grammar
EnumeratedCase(i) ==
    /\ TypeBranch(Functions[call.tool].parameters[i].annotation) = "str"
    /\ call.raws[i].dependency # NoneObject
    /\ ~call.raws[i].dependency.is_grammar
    /\ lists[call.raws[i].dependency.source_object] # <<>>
    /\ call.raws[i].generated \in Language(call.raws[i].grammar)

\* C1: the argument passed for a str parameter with an enumerated dependency
\* over a non-empty list V, generated as a text of the parameter's grammar, is
\* an element of V
C1_EnumeratedArgumentInValues ==
    call # NoneObject =>
        \A i \in 1..Len(call.kwargs) :
            EnumeratedCase(i) => call.kwargs[i] \in EnumeratedValues(call.raws[i].dependency)

\* A tool is invoked with a str parameter whose text, generated under the
\* grammar of its enumerated dependency, is one of the listed values
C1_Witness ==
    /\ call # NoneObject
    /\ \E i \in 1..Len(call.kwargs) :
          /\ EnumeratedCase(i)
          /\ Str(call.raws[i].generated) \in EnumeratedValues(call.raws[i].dependency)

\* The literals of the grammar generate_tools_grammar returns now: [ok, lits]
ToolsGrammarLiterals(allow_none) ==
    LET g == generate_tools_grammar(tools, Memo(cache, hashes), allow_none).grammar
    IN  IF StartsWithSeq(g, G_root)
        THEN ReadAlternation(SubSeq(g, Len(G_root) + 1, Len(g)), <<>>)
        ELSE [ok |-> FALSE, lits |-> <<>>]

\* C2: with a non-empty set T of registered names, the grammar that
\* generate_tools_grammar(allow_none) returns is an alternation of literals
\* whose language is T, plus "NONE" exactly when allow_none, the names in
\* sorted order
C2_ToolsGrammarLanguage ==
    DOMAIN tools # {} =>
        \A allow_none \in BOOLEAN :
            /\ ToolsGrammarLiterals(allow_none).ok
            /\ Range(ToolsGrammarLiterals(allow_none).lits)
                  = DOMAIN tools \cup (IF allow_none THEN {N_NONE} ELSE {})
            /\ ToolsGrammarLiterals(allow_none).lits
                  = (IF allow_none THEN <<N_NONE>> ELSE <<>>) \o Sorted(DOMAIN tools)

\* A selection call is in flight under the grammar of two or more registered
\* names and the stop sentinel, some other grammar being in the memo
C2_Witness ==
    /\ pc = "select"
    /\ Cardinality(DOMAIN tools) >= 2
    /\ cfg.allow_no_tool
    /\ req.grammar = generate_tools_grammar(tools, Memo(cache, hashes), TRUE).grammar
    /\ Language(req.grammar) = DOMAIN tools \cup {N_NONE}

RECURSIVE IsSubsequence(_, _)
IsSubsequence(a, b) ==
    IF a = <<>> THEN TRUE
    ELSE IF b = <<>> THEN FALSE
    ELSE IF Head(a) = Head(b) THEN IsSubsequence(Tail(a), Tail(b))
    ELSE IsSubsequence(a, Tail(b))

\* C10: every dependency declared for a name that is registered is in the
\* name's descriptor, in declaration order
C10_NoDependencyLost ==
    \A n \in DOMAIN tools \cap DOMAIN declared :
        IsSubsequence(declared[n], tools[n].dependencies)

\* A registered name holds two dependencies that were declared for it, in the
\* order of their declaration
C10_Witness ==
    \E n \in DOMAIN tools \cap DOMAIN declared :
        /\ Len(declared[n]) >= 2
        /\ tools[n].dependencies = declared[n]

\* The step that led here was a selection whose output led to "to", in a run
\* during which no other task changed the registry
Selected(to) ==
    /\ obs.lastSelect # NoneObject
    /\ ~obs.regChanged
    /\ obs.lastSelect.to = to

\* C3: with the registry unchanged during the run, an output of the selection
\* call leads to STOP with no tool invoked if it is "NONE", and otherwise is
\* the name of a registered tool and leads to the extraction of that tool's
\* parameters; it never leads to the tool-not-found result
C3_SelectionTransitions ==
    /\ ~Selected("NOT_FOUND")
    /\ Selected("STOP") =>
          /\ obs.lastSelect.out = N_NONE
          /\ pc = "returned"
          /\ call = NoneObject /\ obs.calls = obs.before.calls
    /\ Selected("EXTRACT_PARAMS") =>
          /\ obs.lastSelect.out # N_NONE
          /\ obs.lastSelect.out \in DOMAIN tools
          /\ \/ pc = "param" /\ sel.tool_name = obs.lastSelect.out
             \/ call # NoneObject /\ call.name = obs.lastSelect.out

C3_Witness == Selected("EXTRACT_PARAMS") /\ pc = "param" /\ obs.before.calls > 0

\* The return value has the form "Completed N tool calls"
IsSummary(value) == \E n \in 0..Len(history) : value = Summary(n)

\* The original statement of C4: whenever run() returns, the return value has
\* the form "Completed N tool calls"
C4_AlwaysSummary == pc = "returned" => IsSummary(retval)

\* C4: whenever run() returns after it found a tool registered at its check
\* that follows the first reasoning step, the return value has the form
\* "Completed N tool calls"; when it found none, the return value is the
\* reasoning text
C4_SummaryWithTools ==
    pc = "returned" =>
        IF obs.hadTools THEN IsSummary(retval) ELSE retval = Join(reasoning)

C4_Witness ==
    /\ pc = "returned" /\ obs.hadTools
    /\ obs.calls = 2 /\ retval = Summary(2)

\* The step that led here ended an iteration of the loop with this result
\* text: one ToolResult turn was appended, the iteration counter advanced, and
\* the run goes on to the re-reasoning call unless the budget is used up
IterationEnded(tool_name, result) ==
    /\ Len(history) = obs.before.history + 1
    /\ history[Len(history)] = Turn("ToolResult", Join(tool_name) \o ": " \o result)
    /\ iteration = obs.before.iteration + 1
    /\ IF iteration >= cfg.max_iterations THEN pc = "returned" ELSE pc = "rereason"

\* C5: when the invoked tool raises, run() does not raise, one ToolResult turn
\* with the error string is appended, and the loop proceeds as it does after a
\* tool that returned
C5_ToolErrorContinues ==
    call # NoneObject =>
        /\ call.raised => call.result = "Error executing tool: boom"
        /\ ~call.raised => call.result = "ok"
        /\ IterationEnded(call.name, call.result)

C5_Witness == call # NoneObject /\ call.raised /\ pc = "rereason"

C6_ListWitness ==
    /\ call # NoneObject
    /\ \E i \in 1..Len(call.kwargs) :
          /\ call.raws[i].failed
          /\ TypeBranch(Functions[call.tool].parameters[i].annotation) = "list"

\* What a run has done so far: generation calls issued, tools invoked, turns
Progress == <<obs.gen, obs.calls, history>>

\* C7: a generation call that fails makes run() raise, and from the failing
\* call on the run issues no generation call, invokes no tool and appends no
\* turn
C7_TransportErrorAborts ==
    /\ [](obs.failed = "transport" => pc = "raised")
    /\ [][obs'.failed = "transport" /\ obs.failed # "transport" /\ runs' = runs
             => Progress' = Progress]_vars
    /\ [][pc = "raised" /\ runs' = runs => pc' = "raised" /\ Progress' = Progress]_vars

C7_Witness == pc = "raised" /\ obs.failed = "transport" /\ obs.calls > 0

\* C8: every run() ends; it invokes at most max_iterations tools and issues at
\* most max_iterations selection calls; with the budget used up no generation
\* call of the loop is awaited
C8_TerminatesWithinBudget ==
    /\ [](pc # "idle" => obs.calls <= cfg.max_iterations)
    /\ [](pc # "idle" => obs.selects <= cfg.max_iterations)
    /\ [](pc \in {"rereason", "select", "param"} => iteration < cfg.max_iterations)
    /\ (pc \in Awaiting) ~> (pc \in {"returned", "raised"})

C8_Witness ==
    /\ pc = "returned"
    /\ cfg.max_iterations = MaxIterations
    /\ obs.calls = MaxIterations /\ obs.selects = MaxIterations

\* C9: when the selected name is not registered at the start of _execute_tool,
\* no tool is invoked, run() does not raise, the tool-not-found text is appended
\* as a ToolResult turn, and the loop continues
C9_LookupMissContinues ==
    (obs.lastSelect # NoneObject /\ obs.lastSelect.to = "NOT_FOUND") =>
        /\ call = NoneObject /\ obs.calls = obs.before.calls
        /\ IterationEnded(obs.lastSelect.out,
                          "Error: Tool " \o Join(obs.lastSelect.out) \o " not found")

C9_Witness ==
    /\ obs.lastSelect # NoneObject /\ obs.lastSelect.to = "NOT_FOUND"
    /\ pc = "rereason"

\* The call that led here is this registry operation
RegistryOp(op) == call # NoneObject /\ call.op = op

\* a is the end of b
IsSuffix(a, b) ==
    /\ Len(a) <= Len(b)
    /\ SubSeq(b, Len(b) - Len(a) + 1, Len(b)) = a

\* The pending area but for one name
PendingBut(p, name) == [n \in DOMAIN p \ {name} |-> p[n]]

\* C11: the pending dependencies of a name are the last ones declared for it,
\* in the order of their declaration; register_tool for a name that has
\* pending dependencies gives the new descriptor exactly those, in that order,
\* and removes the name from the pending area, which is otherwise unchanged;
\* add_dependency for a registered name appends to that tool's descriptor and
\* leaves the pending area unchanged; add_dependency for a name that is not
\* registered appends to the name's pending list and changes nothing else
C11_RegisterFlushesPending ==
    /\ [](\A n \in DOMAIN pending : n \in DOMAIN declared /\ IsSuffix(pending[n], declared[n]))
    /\ [][(RegistryOp("register_tool")' /\ call'.was_pending) =>
             /\ tools'[call'.name].dependencies = pending[call'.name]
             /\ pending' = PendingBut(pending, call'.name)]_vars
    /\ [][(RegistryOp("add_dependency")' /\ call'.was_registered) =>
             /\ tools'[call'.name].dependencies
                   = Append(tools[call'.name].dependencies, call'.dependency)
             /\ pending' = pending
             /\ \A n \in DOMAIN tools \ {call'.name} : tools'[n] = tools[n]]_vars
    /\ [][(RegistryOp("add_dependency")' /\ ~call'.was_registered) =>
             /\ tools' = tools
             /\ DOMAIN pending' = DOMAIN pending \cup {call'.name}
             /\ pending'[call'.name]
                   = Append(IF call'.was_pending THEN pending[call'.name] ELSE <<>>,
                            call'.dependency)
             /\ PendingBut(pending', call'.name) = PendingBut(pending, call'.name)]_vars

\* A name was registered while two dependencies were pending for it, and its
\* descriptor holds the two
C11_Witness ==
    /\ RegistryOp("register_tool") /\ call.was_pending
    /\ Len(tools[call.name].dependencies) = 2
    /\ tools[call.name].dependencies[1] # tools[call.name].dependencies[2]
    /\ call.name \notin DOMAIN pending

\* What generate_parameter_grammar computes for the current registry and
\* lists when nothing is cached
UncachedParameterGrammar(tool_name, param_name) ==
    generate_parameter_grammar(tools, lists, Memo(<<>>, <<>>), tool_name, param_name).grammar

\* C12: the grammar that generate_tools_grammar or generate_parameter_grammar
\* returns is the grammar an uncached computation over the current registry
\* and lists returns
C12_CachedEqualsUncached ==
    /\ RegistryOp("generate_tools_grammar") =>
          call.grammar = ToolsGrammarText(tools, call.allow_none)
    /\ RegistryOp("generate_parameter_grammar") =>
          call.grammar = UncachedParameterGrammar(call.tool_name, call.param_name)

\* The grammar of filter's col was generated twice, the list changed in place
\* between the two calls, and the second call returned the grammar of the new
\* contents
C12_Witness ==
    /\ RegistryOp("generate_parameter_grammar")
    /\ call.tool_name = N_filter /\ call.param_name = P_column
    /\ seen.calls = 2 /\ seen.mutations = 1
    /\ lists["COLUMNS"] # InitialLists["COLUMNS"]
    /\ call.grammar = ParameterGrammarText(lists["COLUMNS"])
    /\ "filter_col_grammar" \in DOMAIN cache

\* C13: the selection grammar returned for a set of registered names and an
\* allow_none setting is, byte for byte, the one returned the first time for
\* that set and setting, whatever calls of clear and register, in whatever
\* order, were made in between
C13_SelectionGrammarOfNameSet ==
    RegistryOp("generate_tools_grammar") =>
        /\ <<DOMAIN tools, call.allow_none>> \in DOMAIN seen.grammars
        /\ seen.grammars[<<DOMAIN tools, call.allow_none>>].grammar = call.grammar

\* The selection grammar is generated for two names that were registered in
\* the other order when it was generated before
C13_Witness ==
    /\ RegistryOp("generate_tools_grammar")
    /\ Len(order) = 2 /\ seen.calls = 2
    /\ <<DOMAIN tools, call.allow_none>> \in DOMAIN seen.grammars
    /\ seen.grammars[<<DOMAIN tools, call.allow_none>>].keys = <<order[2], order[1]>>

\* The literal of the grammar for an empty registry
L_NO_TOOLS ==
    <<"N", "O", "_", "T", "O", "O", "L", "S", "_", "A", "V", "A", "I", "L", "A", "B", "L", "E">>

\* C14: with no tool registered generate_tools_grammar returns, for either
\* allow_none, a grammar whose language is the one literal
\* NO_TOOLS_AVAILABLE; and whatever is registered, the grammar it returns is
\* never empty and is an alternation of at least one literal, none of them
\* empty
C14_NoToolsSentinel ==
    /\ \A allow_none \in BOOLEAN :
          /\ DOMAIN tools = {} =>
                Language(generate_tools_grammar(tools, Memo(cache, hashes),
                                                allow_none).grammar) = {L_NO_TOOLS}
          /\ LET r == ToolsGrammarLiterals(allow_none)
             IN  /\ r.ok
                 /\ Len(r.lits) >= 1
                 /\ \A i \in 1..Len(r.lits) : r.lits[i] # <<>>
    /\ RegistryOp("generate_tools_grammar") =>
          /\ call.grammar # <<>>
          /\ DOMAIN tools = {} => Language(call.grammar) = {L_NO_TOOLS}

\* The selection grammar is generated for an empty registry after it was
\* generated, with the same allow_none, for a registry that was not empty
C14_Witness ==
    /\ RegistryOp("generate_tools_grammar")
    /\ DOMAIN tools = {} /\ seen.calls = 2
    /\ \E names \in SUBSET {N_filter, N_cnt} :
          names # {} /\ <<names, call.allow_none>> \in DOMAIN seen.grammars
    /\ Language(call.grammar) = {L_NO_TOOLS}

\* The descriptor's dependency for the parameter of the last
\* generate_parameter_grammar call, or None
CallDependency ==
    IF call.tool_name \in DOMAIN tools
    THEN get_dependency(tools[call.tool_name], call.param_name)
    ELSE NoneObject

\* The literal of the grammar for an empty list
L_NO_OPTIONS ==
    <<"N", "O", "_", "O", "P", "T", "I", "O", "N", "S", "_", "A", "V", "A", "I", "L", "A", "B", "L", "E">>

\* The alternation of the escaped values: "v1" | "v2" | ...
EscapedAlternation(values) ==
    JoinWith([i \in 1..Len(values) |-> <<"\"">> \o _escape_string(values[i]) \o <<"\"">>],
             <<" ", "|", " ">>)

C15_EscapedWitness ==
    /\ RegistryOp("generate_parameter_grammar")
    /\ CallDependency # NoneObject /\ ~CallDependency.is_grammar
    /\ <<"\\", "\"">> \in Language(call.grammar)

(***************************************************************************)
(* _escape_string as a function of its argument: the argument is any text  *)
(* of at most MaxLiteralLen characters over the five characters it         *)
(* replaces and three it does not.                                         *)
(***************************************************************************)
LiteralChars == {"\\", "\"", "\n", "\r", "\t", "a", "n", " "}

Literals == UNION {[1..n -> LiteralChars] : n \in 0..MaxLiteralLen}

\* The state of the agent's and the registry's variables in a specification
\* of a function
NoProgram ==
    /\ tools = clear_registry.tools
    /\ pending = clear_registry.pending
    /\ order = <<>>
    /\ seen = NoSeen
    /\ lists = InitialLists
    /\ cache = <<>> /\ hashes = <<>>
    /\ declared = <<>>
    /\ cfg = NoneObject
    /\ history = <<>> /\ pc = "idle" /\ iteration = 0 /\ reasoning = <<>>
    /\ req = NoReq /\ sel = NoSel /\ retval = None /\ runs = 0
    /\ obs = NoObs
    /\ files = <<>> /\ threads = <<>>

InitEscape ==
    /\ NoProgram
    /\ arg \in Literals
    /\ ret = NoneObject
    /\ call = NoneObject

\* _escape_string(arg)
EscapeString ==
    /\ call = NoneObject
    /\ ret' = _escape_string(arg)
    /\ call' = [op |-> "_escape_string"]
    /\ UNCHANGED <<regVars, cacheVars, agentRest, seen, arg, files, threads>>

NextEscape == EscapeString

SpecEscape == InitEscape /\ [][NextEscape]_vars

\* The text of one character in a GBNF literal
EscapedChar(c) ==
    CASE c = "\\" -> <<"\\", "\\">>
      [] c = "\"" -> <<"\\", "\"">>
      [] c = "\n" -> <<"\\", "n">>
      [] c = "\r" -> <<"\\", "r">>
      [] c = "\t" -> <<"\\", "t">>
      [] OTHER -> <<c>>

\* The value of the literal whose text between the quotes is t
Unescaped(t) == ReadLiteral(t \o <<"\"">>, <<>>)

\* C16: for every text over backslash, double quote, newline, carriage
\* return, tab and ordinary characters, reading the literal that
\* _escape_string wrote gives the text back and stops at the closing quote,
\* so two different texts never have the same escaped form; the backslash is
\* replaced first, so that the backslashes the later replacements introduce
\* are not doubled: each character is written as its own escape
C16_EscapeRoundTrip ==
    RegistryOp("_escape_string") =>
        /\ Unescaped(ret).ok
        /\ Unescaped(ret).lit = arg
        /\ Unescaped(ret).rest = <<>>
        /\ ret = JoinWith([i \in 1..Len(arg) |-> EscapedChar(arg[i])], <<>>)
        /\ \A other \in Literals : _escape_string(other) = ret => other = arg

\* A text with a backslash before an n, and a double quote, was escaped
C16_Witness ==
    /\ RegistryOp("_escape_string")
    /\ arg = <<"\\", "n", "\"">>
    /\ ret = <<"\\", "\\", "n", "\\", "\"">>

\* The values a grammar of generate_parameter_grammar accepts for a list
\* with these contents
AcceptedFor(values) == IF values = <<>> THEN {L_NO_OPTIONS} ELSE Range(values)

\* The last call generated the grammar of a parameter with an enumerated
\* dependency
EnumeratedCall ==
    /\ RegistryOp("generate_parameter_grammar")
    /\ CallDependency # NoneObject
    /\ ~CallDependency.is_grammar

RuleSep == <<":", ":", "=">>

\* c.isalnum() and c.islower() for the characters of a grammar text
IsAlnum(c) == c \in Digits \cup Range(UpperCase) \cup Range(LowerCase)

IsLower(c) == c \in Range(LowerCase)

\* flush() of extract_refs: the token in buf joins refs when its first
\* character is a lowercase letter; buf is emptied
flush(refs, buf) ==
    IF buf # <<>> /\ IsLower(buf[1]) THEN Append(refs, buf) ELSE refs

\* The while loop of extract_refs from index i on, in the mode "quote",
\* "class" or "plain"
RECURSIVE ScanRefs(_, _, _, _, _)
ScanRefs(rhs, i, mode, refs, buf) ==
    IF i > Len(rhs) THEN flush(refs, buf)
    ELSE LET c == rhs[i]
         IN  IF mode = "quote"
             THEN IF c = "\\" THEN ScanRefs(rhs, i + 2, mode, refs, buf)
                  ELSE IF c = "\"" THEN ScanRefs(rhs, i + 1, "plain", refs, buf)
                  ELSE ScanRefs(rhs, i + 1, mode, refs, buf)
             ELSE IF mode = "class"
             THEN IF c = "\\" THEN ScanRefs(rhs, i + 2, mode, refs, buf)
                  ELSE IF c = "]" THEN ScanRefs(rhs, i + 1, "plain", refs, buf)
                  ELSE ScanRefs(rhs, i + 1, mode, refs, buf)
             ELSE IF c = "\"" THEN ScanRefs(rhs, i + 1, "quote", flush(refs, buf), <<>>)
             ELSE IF c = "[" THEN ScanRefs(rhs, i + 1, "class", flush(refs, buf), <<>>)
             ELSE IF IsAlnum(c) \/ c = "-" THEN ScanRefs(rhs, i + 1, mode, refs, Append(buf, c))
             ELSE ScanRefs(rhs, i + 1, mode, flush(refs, buf), <<>>)

extract_refs(rhs) == ScanRefs(rhs, 1, "plain", <<>>, <<>>)

\* line.split("::=", 1) of a line that holds "::=": the stripped name and
\* the stripped right-hand side
RuleOf(line) ==
    LET i == FindSeq(line, RuleSep, 1)
    IN  [name |-> Strip(SubSeq(line, 1, i - 1)),
         rhs |-> Strip(SubSeq(line, i + Len(RuleSep), Len(line)))]

\* The lines of a text that define a rule: they hold "::=" and a name
RuleLines(lines) ==
    SelectSeq(lines, LAMBDA l : ContainsSeq(l, RuleSep) /\ RuleOf(l).name # <<>>)

\* The keys of the dict rules, in insertion order, after the first loop of
\* sanitize_cycles over these rule lines
RECURSIVE RuleKeys(_, _)
RuleKeys(rlines, keys) ==
    IF rlines = <<>> THEN keys
    ELSE RuleKeys(Tail(rlines), keys_after_set(keys, RuleOf(Head(rlines)).name))

\* rules[name]: the right-hand side of the last line that defines name
RuleRhs(rlines, name) ==
    LET hits == {i \in 1..Len(rlines) : RuleOf(rlines[i]).name = name}
        last == CHOOSE i \in hits : \A j \in hits : j <= i
    IN  RuleOf(rlines[last]).rhs

\* graph: for each rule the list of the rules its right-hand side names
GraphOf(lines) ==
    LET rlines == RuleLines(lines)
        names == Range(RuleKeys(rlines, <<>>))
    IN  [name \in names |->
            SelectSeq(extract_refs(RuleRhs(rlines, name)), LAMBDA r : r \in names)]
\* The state of the search of sanitize_cycles before the first node; on_stack
\* is the set of the elements of stack
NoSearch == [index |-> 0, stack |-> <<>>, index_map |-> <<>>, lowlink |-> <<>>, cycles |-> {}]

\* lowlink[v] = min(lowlink[v], n)
LowerLink(st, v, n) == [st EXCEPT !.lowlink = (v :> Min(st.lowlink[v], n)) @@ @]

\* A faulty end of strongconnect(v): a component of one rule never joins
\* cycles
PopComponent_NoSelf(graph, v, st) ==
    IF st.lowlink[v] # st.index_map[v] THEN st
    ELSE LET at == CHOOSE i \in 1..Len(st.stack) : st.stack[i] = v
             scc == {st.stack[i] : i \in at..Len(st.stack)}
         IN  [st EXCEPT !.stack = SubSeq(st.stack, 1, at - 1),
                        !.cycles = IF Cardinality(scc) > 1 THEN @ \cup scc ELSE @]

\* The end of strongconnect(v): when v is the root of its component, the
\* component is popped from the stack and joins cycles when it has more than
\* one rule or its one rule names itself
PopComponent(graph, v, st) ==
    IF st.lowlink[v] # st.index_map[v] THEN st
    ELSE LET at == CHOOSE i \in 1..Len(st.stack) : st.stack[i] = v
             scc == {st.stack[i] : i \in at..Len(st.stack)}
             cyclic == \/ Cardinality(scc) > 1
                       \/ \E i \in 1..Len(graph[v]) : graph[v][i] = v
         IN  [st EXCEPT !.stack = SubSeq(st.stack, 1, at - 1),
                        !.cycles = IF cyclic THEN @ \cup scc ELSE @]

\* strongconnect(v), and its loop over the rules ws that v still has to visit
RECURSIVE strongconnect(_, _, _), VisitRefs(_, _, _, _)
strongconnect(graph, v, st) ==
    LET entered == [st EXCEPT !.index_map = (v :> st.index) @@ @,
                              !.lowlink = (v :> st.index) @@ @,
                              !.index = @ + 1,
                              !.stack = Append(@, v)]
    IN  PopComponent(graph, v, VisitRefs(graph, v, graph[v], entered))

VisitRefs(graph, v, ws, st) ==
    IF ws = <<>> THEN st
    ELSE LET w == Head(ws)
             visited ==
                IF w \notin DOMAIN st.index_map
                THEN LET sub == strongconnect(graph, w, st)
                     IN  LowerLink(sub, v, sub.lowlink[w])
                ELSE IF w \in Range(st.stack)
                THEN LowerLink(st, v, st.index_map[w])
                ELSE st
         IN  VisitRefs(graph, v, Tail(ws), visited)

\* for node in rules: if node not in index_map: strongconnect(node)
RECURSIVE SearchFrom(_, _, _)
SearchFrom(graph, nodes, st) ==
    IF nodes = <<>> THEN st
    ELSE SearchFrom(graph, Tail(nodes),
                    IF Head(nodes) \in DOMAIN st.index_map THEN st
                    ELSE strongconnect(graph, Head(nodes), st))

\* cycles: the rules of the text's lines that lie on a cycle of graph
CyclesOf(lines) ==
    SearchFrom(GraphOf(lines), RuleKeys(RuleLines(lines), <<>>), NoSearch).cycles

FallbackName == <<"f", "a", "l", "l", "b", "a", "c", "k">>

\* " ::= fallback"
ToFallback == <<" ">> \o RuleSep \o <<" ">> \o FallbackName

\* "fallback ::= tok-name | tok-number | tok-string"
FallbackRule ==
    FallbackName \o <<" ">> \o RuleSep \o <<" ">>
    \o <<"t", "o", "k", "-", "n", "a", "m", "e">> \o <<" ", "|", " ">>
    \o <<"t", "o", "k", "-", "n", "u", "m", "b", "e", "r">> \o <<" ", "|", " ">>
    \o <<"t", "o", "k", "-", "s", "t", "r", "i", "n", "g">>

\* A faulty sanitize_cycles: the lines are joined again when there is no cycle
sanitize_cycles_Rejoined(grammar_text) ==
    LET lines == SplitLines(grammar_text)
        cycles == CyclesOf(lines)
        out_lines == [i \in 1..Len(lines) |->
                        IF ContainsSeq(lines[i], RuleSep) /\ RuleOf(lines[i]).name \in cycles
                        THEN RuleOf(lines[i]).name \o ToFallback
                        ELSE lines[i]]
        has_fallback == \E i \in 1..Len(out_lines) :
                            StartsWithSeq(Strip(out_lines[i]), FallbackName \o <<" ">> \o RuleSep)
        all_lines == IF has_fallback THEN out_lines ELSE Append(out_lines, FallbackRule)
    IN  IF cycles = {} THEN [text |-> JoinLines(lines) \o <<"\n">>, flattened |-> <<>>]
        ELSE [text |-> JoinLines(all_lines) \o <<"\n">>, flattened |-> Sorted(cycles)]

\* sanitize_cycles(grammar_text): the text and the sorted list of the rules
\* that were rewritten
sanitize_cycles(grammar_text) ==
    LET lines == SplitLines(grammar_text)
        cycles == CyclesOf(lines)
        out_lines == [i \in 1..Len(lines) |->
                        IF ContainsSeq(lines[i], RuleSep) /\ RuleOf(lines[i]).name \in cycles
                        THEN RuleOf(lines[i]).name \o ToFallback
                        ELSE lines[i]]
        has_fallback == \E i \in 1..Len(out_lines) :
                            StartsWithSeq(Strip(out_lines[i]), FallbackName \o <<" ">> \o RuleSep)
        all_lines == IF has_fallback THEN out_lines ELSE Append(out_lines, FallbackRule)
    IN  IF cycles = {} THEN [text |-> grammar_text, flattened |-> <<>>]
        ELSE [text |-> JoinLines(all_lines) \o <<"\n">>, flattened |-> Sorted(cycles)]
MaxLines == 3

\* The lines the grammar texts are made of: rules that name each other, a
\* rule that names itself, rules named fallback and tok-name, a rule whose
\* right-hand side names nothing, a line that is no rule, and a rule written
\* without blanks that has an escaped quote in a literal, and a rule named
\* fallback written without blanks
GrammarLines ==
    << <<"a", " ", ":", ":", "=", " ", "b">>,
       <<"b", " ", ":", ":", "=", " ", "a">>,
       <<"b", " ", ":", ":", "=", " ", "\"", "a", "\"", " ", "[", "b", "]">>,
       <<"a", " ", ":", ":", "=", " ", "a", " ", "|", " ", "\"", "x", "\"">>,
       <<"f", "a", "l", "l", "b", "a", "c", "k", " ", ":", ":", "=", " ", "a">>,
       <<"a", " ", ":", ":", "=", " ", "f", "a", "l", "l", "b", "a", "c", "k">>,
       <<"t", "o", "k", "-", "n", "a", "m", "e", " ", ":", ":", "=", " ", "a">>,
       <<"a", " ", ":", ":", "=", " ", "t", "o", "k", "-", "n", "a", "m", "e">>,
       <<"#", " ", "a", " ", "b">>,
       <<"b", ":", ":", "=", "\"", "\\", "\"", "\"", " ", "b">>,
       <<"f", "a", "l", "l", "b", "a", "c", "k", ":", ":", "=", "a">> >>

\* The grammar texts: at most MaxLines of the lines, with or without a
\* newline after the last one
GrammarTexts ==
    LET picks == UNION {[1..n -> 1..Len(GrammarLines)] : n \in 1..MaxLines}
    IN  {JoinLines([i \in 1..Len(p) |-> GrammarLines[p[i]]]) \o tail :
            p \in picks, tail \in {<<>>, <<"\n">>}}

InitSanitize ==
    /\ NoProgram
    /\ arg \in GrammarTexts
    /\ ret = NoneObject
    /\ call = NoneObject

\* sanitize_cycles(arg)
SanitizeCycles ==
    /\ call = NoneObject
    /\ ret' = sanitize_cycles(arg)
    /\ call' = [op |-> "sanitize_cycles"]
    /\ UNCHANGED <<regVars, cacheVars, agentRest, seen, arg, files, threads>>

NextSanitize == SanitizeCycles

SpecSanitize == InitSanitize /\ [][NextSanitize]_vars

\* The rule references of a text: a pair <<name, r>> for every line that
\* defines rule name and every rule r that its right-hand side names
References(text) ==
    LET rlines == RuleLines(SplitLines(text))
        names == {RuleOf(rlines[i]).name : i \in 1..Len(rlines)}
    IN  UNION {{<<RuleOf(rlines[i]).name, r>> :
                    r \in Range(extract_refs(RuleOf(rlines[i]).rhs)) \cap names} :
               i \in 1..Len(rlines)}

\* The references of the graph that sanitize_cycles builds: those of the
\* last line of each rule
GraphReferences(text) ==
    LET graph == GraphOf(SplitLines(text))
    IN  UNION {{<<name, r>> : r \in Range(graph[name])} : name \in DOMAIN graph}

\* The pairs <<x, y>> with a path of references of E from x to y
RECURSIVE TransitiveClosure(_)
TransitiveClosure(E) ==
    LET step == E \cup {<<q[1][1], q[2][2]>> : q \in {p \in E \X E : p[1][2] = p[2][1]}}
    IN  IF step = E THEN E ELSE TransitiveClosure(step)

\* Some rule reaches itself through the references E
HasCycle(E) == \E e \in TransitiveClosure(E) : e[1] = e[2]

\* The original statement of C18: whatever the input, no rule of the text
\* that sanitize_cycles returns reaches itself through rule references
C18_OutputAcyclic ==
    RegistryOp("sanitize_cycles") => ~HasCycle(References(ret.text))

\* The two rules of a cycle a -> b -> a are both rewritten to the fallback
\* rule, and no rule of the returned text reaches itself
C18_Witness ==
    /\ RegistryOp("sanitize_cycles")
    /\ arg = JoinLines(<<GrammarLines[1], GrammarLines[2]>>)
    /\ ret.text = JoinLines(<<<<"a">> \o ToFallback, <<"b">> \o ToFallback, FallbackRule>>) \o <<"\n">>
    /\ ret.flattened = << <<"a">>, <<"b">> >>
    /\ ~HasCycle(References(ret.text))

\* The returned text has a rule that reaches itself: a rule that the
\* fallback rule names lay on a cycle
C18_CyclicOutput ==
    /\ RegistryOp("sanitize_cycles")
    /\ ret.flattened # <<>>
    /\ HasCycle(GraphReferences(ret.text))

\* C19: when no rule of the text reaches itself through the rule references
\* (through those of the graph that sanitize_cycles builds, a part of them),
\* sanitize_cycles returns the text as it is, line ends and a missing last
\* newline included, and an empty list
C19_AcyclicUnchanged ==
    RegistryOp("sanitize_cycles") =>
        /\ ~HasCycle(References(arg)) => ~HasCycle(GraphReferences(arg))
        /\ ~HasCycle(GraphReferences(arg)) =>
              ret = [text |-> arg, flattened |-> <<>>]

\* A text of two rules and a line that is no rule, without a newline at its
\* end and without a cycle, is returned as it is
C19_Witness ==
    /\ RegistryOp("sanitize_cycles")
    /\ arg = JoinLines(<<GrammarLines[1], GrammarLines[9], GrammarLines[3]>>)
    /\ ~HasCycle(References(arg))
    /\ ret.text = arg /\ ret.flattened = <<>>

\* The turns that _build_prompt puts between the system prompt and the
\* user message
PromptTurns(h, include_history) == IF include_history THEN h ELSE <<>>

\* run() is suspended in a generation call whose prompt _build_prompt made:
\* the reasoning call, the selection call or the re-reasoning call
PromptBuilt == pc \in {"reason", "select", "rereason"}

\* The User turns among the turns h
UserTurns(h) == {i \in 1..Len(h) : h[i].role = "User"}

\* The original statement of C20: a prompt built during a run holds the
\* turns of that run only: its one User turn, which is the first turn, and
\* what the run appended after it
C20_FreshConversation ==
    PromptBuilt => UserTurns(PromptTurns(history, TRUE)) = {1}

\* The second run() on an Agent built a prompt
C20_Witness ==
    /\ PromptBuilt
    /\ runs = 2
    /\ Len(PromptTurns(history, TRUE)) >= 2

(***************************************************************************)
(* decorators.py: @depends_grammar_file and @depends_language.  The file   *)
(* system is any assignment of "file", "dir" or nothing to the paths the   *)
(* declarations name.                                                      *)
(***************************************************************************)
MaxFileDeclarations == 2

HomeDir == <<"/", "h">>

\* language_to_path["python"]
PythonGrammarPath ==
    <<"g", "r", "a", "m", "m", "a", "r", "/", "p", "y", "t", "h", "o", "n", "_",
      "g", "r", "a", "m", "m", "a", "r", "/", "p", "y", "t", "h", "o", "n", ".",
      "g", "b", "n", "f">>

\* language_to_path: the language keys and their grammar files
language_to_path == [k \in {L_python} |-> PythonGrammarPath]

\* Path.expanduser(): a leading ~ becomes the home directory
expanduser(path) ==
    IF path # <<>> /\ Head(path) = "~" /\ (Len(path) = 1 \/ path[2] = "/")
    THEN HomeDir \o Tail(path)
    ELSE path

\* A faulty check of the grammar file: any path passes
is_file_Any(fs, path) == TRUE

\* path.exists() and path.is_file()
is_file(fs, path) == path \in DOMAIN fs /\ fs[path] = "file"

\* path.read_text(): the text of a grammar file is told by its path
read_text(path) == G_root \o <<"\"">> \o path \o <<"\"">>

\* The outcome of a decorator's __call__: the registry and the exception
\* that leaves it, or None
Applied(reg, raised) == [reg |-> reg, raised |-> raised]

\* GrammarFileDecorator.__call__: the loop over the items of kwargs
RECURSIVE depends_grammar_file(_, _, _, _)
depends_grammar_file(reg, fs, func_name, kwargs) ==
    IF kwargs = <<>> THEN Applied(reg, None)
    ELSE LET param_name == Head(kwargs)[1]
             path == expanduser(Head(kwargs)[2])
         IN  IF ~is_file(fs, path) THEN Applied(reg, "FileNotFoundError")
             ELSE depends_grammar_file(
                      add_dependency(reg, func_name,
                          ParameterDependency(param_name, read_text(path), path, TRUE)),
                      fs, func_name, Tail(kwargs))

\* LanguageDecorator.__call__: the loop over the items of kwargs
RECURSIVE depends_language(_, _, _, _)
depends_language(reg, fs, func_name, kwargs) ==
    IF kwargs = <<>> THEN Applied(reg, None)
    ELSE LET param_name == Head(kwargs)[1]
             language_key == Lower(Strip(Head(kwargs)[2]))
         IN  IF language_key \notin DOMAIN language_to_path
             THEN Applied(reg, "ValueError")
             ELSE LET path == expanduser(language_to_path[language_key])
                  IN  IF ~is_file(fs, path) THEN Applied(reg, "FileNotFoundError")
                      ELSE depends_language(
                               add_dependency(reg, func_name,
                                   ParameterDependency(param_name, read_text(path),
                                       L_language \o language_key \o <<">">>, TRUE)),
                               fs, func_name, Tail(kwargs))

\* The paths and the language tags of the declarations
GrammarPaths == { <<"g">>, <<"~", "/", "g">> }

LanguageTags == { L_python, <<" ", "P", "y", "t", "h", "o", "n">>, <<"c">> }

FilePaths == {expanduser(path) : path \in GrammarPaths} \cup {PythonGrammarPath}

FileSystems ==
    UNION {[D -> {"file", "dir"}] : D \in SUBSET FilePaths}

\* The keyword arguments of a declaration on filter: one or both of its
\* parameters, in either order, each with one of the values
Kwargs(values) ==
    {<< <<P_column, v>> >> : v \in values}
    \cup {<< <<P_value, v>> >> : v \in values}
    \cup {<< <<P_column, v>>, <<P_value, w>> >> : v \in values, w \in values}
    \cup {<< <<P_value, v>>, <<P_column, w>> >> : v \in values, w \in values}

InitDeclare ==
    /\ tools = clear_registry.tools
    /\ pending = clear_registry.pending
    /\ order = <<>>
    /\ seen = NoSeen /\ arg = NoneText /\ ret = NoneObject
    /\ files \in FileSystems /\ threads = <<>>
    /\ lists = InitialLists
    /\ cache = <<>> /\ hashes = <<>>
    /\ declared = <<>>
    /\ cfg = NoneObject
    /\ history = <<>> /\ pc = "idle" /\ iteration = 0 /\ reasoning = <<>>
    /\ req = NoReq /\ sel = NoSel /\ retval = None /\ runs = 0
    /\ call = NoneObject /\ obs = NoObs

\* The registry after a decorator's __call__, with the call as a ghost
DeclarationDone(op, kwargs, r) ==
    /\ tools' = r.reg.tools
    /\ pending' = r.reg.pending
    /\ call' = [op |-> op, name |-> N_filter, kwargs |-> kwargs, raised |-> r.raised,
                before |-> Registry(tools, pending)]
    /\ seen' = [seen EXCEPT !.calls = @ + 1]
    /\ UNCHANGED <<order, lists, declared, cacheVars, agentRest, arg, ret, files, threads>>

\* @depends_grammar_file(...) on filter
ApplyDependsGrammarFile ==
    /\ seen.calls < MaxFileDeclarations
    /\ \E kwargs \in Kwargs(GrammarPaths) :
          DeclarationDone("depends_grammar_file", kwargs,
              depends_grammar_file(Registry(tools, pending), files, N_filter, kwargs))

\* @depends_language(...) on filter
ApplyDependsLanguage ==
    /\ seen.calls < MaxFileDeclarations
    /\ \E kwargs \in Kwargs(LanguageTags) :
          DeclarationDone("depends_language", kwargs,
              depends_language(Registry(tools, pending), files, N_filter, kwargs))

\* @tool on filter
ApplyToolFilter ==
    /\ N_filter \notin DOMAIN tools
    /\ tools' = register_tool(Registry(tools, pending), "filter").tools
    /\ pending' = register_tool(Registry(tools, pending), "filter").pending
    /\ order' = keys_after_set(order, N_filter)
    /\ call' = NoneObject
    /\ UNCHANGED <<lists, cacheVars, declared, agentRest, auxVars>>

NextDeclare == ApplyDependsGrammarFile \/ ApplyDependsLanguage \/ ApplyToolFilter

SpecDeclare == InitDeclare /\ [][NextDeclare]_vars

\* The dependencies declared for a name, attached or pending
DependenciesFor(reg, name) ==
    IF name \in DOMAIN reg.tools THEN reg.tools[name].dependencies
    ELSE IF name \in DOMAIN reg.pending THEN reg.pending[name]
    ELSE <<>>

\* The last step applied @depends_grammar_file or @depends_language
FileDeclaration ==
    call # NoneObject /\ call.op \in {"depends_grammar_file", "depends_language"}

\* What is wrong with the value of a keyword argument of the declaration in
\* call: the language tag is not supported, the grammar file is absent or
\* no file, or nothing
Fault(value) ==
    IF call.op = "depends_language" /\ Lower(Strip(value)) # L_python
    THEN "ValueError"
    ELSE LET path == IF call.op = "depends_language" THEN PythonGrammarPath
                     ELSE expanduser(value)
         IN  IF path \in DOMAIN files /\ files[path] = "file" THEN None
             ELSE "FileNotFoundError"

\* The keyword arguments of call with a fault
Faulty == {i \in 1..Len(call.kwargs) : Fault(call.kwargs[i][2]) # None}

\* C21: a declaration with an unsupported language tag raises ValueError
\* and one whose grammar file is absent raises FileNotFoundError, when the
\* decorator is applied and no run has started; the dependency of the
\* failing parameter, and of those after it, is not added to the registry,
\* attached or pending (those of the parameters before it are); a
\* declaration without a fault raises nothing and adds them all
C21_RaisesAtDeclaration ==
    FileDeclaration =>
        LET n == IF Faulty = {} THEN Len(call.kwargs)
                 ELSE (CHOOSE i \in Faulty : \A j \in Faulty : i <= j) - 1
            was == DependenciesFor(call.before, call.name)
            now == DependenciesFor(Registry(tools, pending), call.name)
        IN  /\ runs = 0 /\ pc = "idle"
            /\ call.raised = IF Faulty = {} THEN None ELSE Fault(call.kwargs[n + 1][2])
            /\ Len(now) = Len(was) + n
            /\ SubSeq(now, 1, Len(was)) = was
            /\ \A i \in 1..n :
                  /\ now[Len(was) + i].param_name = call.kwargs[i][1]
                  /\ now[Len(was) + i].is_grammar
            /\ \A name \in (DOMAIN tools \cup DOMAIN pending) \ {call.name} :
                  DependenciesFor(Registry(tools, pending), name)
                      = DependenciesFor(call.before, name)

\* @depends_language(col=" Python", val="c") with the python grammar file in
\* place raised ValueError: col's dependency was added, val's was not
C21_Witness ==
    /\ FileDeclaration
    /\ call.op = "depends_language"
    /\ call.kwargs = << <<P_column, <<" ", "P", "y", "t", "h", "o", "n">> >>, <<P_value, <<"c">> >> >>
    /\ call.raised = "ValueError"
    /\ Len(DependenciesFor(Registry(tools, pending), N_filter))
          = Len(DependenciesFor(call.before, N_filter)) + 1

\* @depends_grammar_file(col="~/g") where the path is a directory raised
\* FileNotFoundError and added nothing
C21_AbsentFileWitness ==
    /\ FileDeclaration
    /\ call.op = "depends_grammar_file"
    /\ call.kwargs = << <<P_column, <<"~", "/", "g">> >> >>
    /\ expanduser(<<"~", "/", "g">>) \in DOMAIN files
    /\ call.raised = "FileNotFoundError"
    /\ DependenciesFor(Registry(tools, pending), N_filter)
          = DependenciesFor(call.before, N_filter)

(***************************************************************************)
(* grammar.py under threads: generate_tools_grammar and                    *)
(* generate_parameter_grammar take no lock, so the reads and the writes of *)
(* _cache and _object_hashes of several callers interleave.  The registry  *)
(* and the lists do not change while the callers are inside; the memo may  *)
(* hold what earlier calls left, for another registry or other contents.   *)
(***************************************************************************)
Threads == {1, 2}

\* The registry after the declarations of these functions with Depends
RECURSIVE WithDepends(_, _)
WithDepends(reg, ds) ==
    IF ds = {} THEN reg
    ELSE LET d == CHOOSE x \in ds : TRUE
         IN  WithDepends(add_dependency(reg, Functions[d.fid].name, d.dependency), ds \ {d})

RECURSIVE WithTools(_, _)
WithTools(reg, fids) ==
    IF fids = {} THEN reg
    ELSE LET f == CHOOSE x \in fids : TRUE
         IN  WithTools(register_tool(reg, f), fids \ {f})

DeclaredRegistry(fids) ==
    WithDepends(WithTools(clear_registry, fids), {d \in Depends : d.fid \in fids})

\* The calls a thread makes
GrammarRequests ==
    {[op |-> "generate_tools_grammar", allow_none |-> b] : b \in BOOLEAN}
    \cup {[op |-> "generate_parameter_grammar",
           tool_name |-> Functions[d.fid].name,
           param_name |-> d.dependency.param_name] : d \in Depends}

\* The result of a call made alone: [grammar, memo]
Generate(t, ls, memo, request) ==
    IF request.op = "generate_tools_grammar"
    THEN generate_tools_grammar(t, memo, request.allow_none)
    ELSE generate_parameter_grammar(t, ls, memo, request.tool_name, request.param_name)

\* The memo after each of the calls was made once, one after the other
RECURSIVE GenerateAll(_, _, _, _)
GenerateAll(t, ls, memo, requests) ==
    IF requests = {} THEN memo
    ELSE LET r == CHOOSE x \in requests : TRUE
         IN  GenerateAll(t, ls, Generate(t, ls, memo, r).memo, requests \ {r})

\* The contents the lists can have
ListStates ==
    {[id \in ListIds |-> IF id = "COLUMNS" THEN c ELSE IF id = "PATHS" THEN p
                         ELSE InitialLists[id]] :
        c \in ListContents["COLUMNS"], p \in ListContents["PATHS"]}

\* What earlier calls can have left in the memo
EarlierMemos ==
    {Memo(<<>>, <<>>)}
    \cup {GenerateAll(DeclaredRegistry(fids).tools, ls, Memo(<<>>, <<>>), GrammarRequests) :
             fids \in {{"filter"}, GrammarFunctionIds}, ls \in ListStates}

NoThread == [pc |-> "idle", request |-> NoneObject, cache_key |-> None,
             hash |-> NoneObject, result |-> NoneObject, computed |-> FALSE]

InitThreads ==
    /\ tools = DeclaredRegistry(GrammarFunctionIds).tools
    /\ pending = DeclaredRegistry(GrammarFunctionIds).pending
    /\ order = Sorted({Functions[f].name : f \in GrammarFunctionIds})
    /\ seen = NoSeen /\ arg = NoneText /\ ret = NoneObject /\ files = <<>>
    /\ lists \in ListStates
    /\ \E memo \in EarlierMemos : cache = memo.cache /\ hashes = memo.hashes
    /\ threads = [t \in Threads |-> NoThread]
    /\ declared = <<>>
    /\ cfg = NoneObject
    /\ history = <<>> /\ pc = "idle" /\ iteration = 0 /\ reasoning = <<>>
    /\ req = NoReq /\ sel = NoSel /\ retval = None /\ runs = 0
    /\ call = NoneObject /\ obs = NoObs

ThreadFrame == <<regVars, agentVars, seen, arg, ret, files>>

\* A thread enters generate_tools_grammar or generate_parameter_grammar: to
\* the return for a parameter without a cached grammar, or to the hash
EnterGenerate(t) ==
    /\ threads[t].pc = "idle"
    /\ \E request \in GrammarRequests :
          LET tool == IF request.op = "generate_tools_grammar" THEN NoneObject
                      ELSE get_tool(tools, request.tool_name)
              dependency == IF tool = NoneObject THEN NoneObject
                            ELSE get_dependency(tool, request.param_name)
          IN  threads' = [threads EXCEPT ![t] =
                IF request.op = "generate_tools_grammar"
                THEN [NoThread EXCEPT
                        !.pc = "hashed", !.request = request,
                        !.cache_key = "tools_grammar_none_"
                            \o (IF request.allow_none THEN "True" ELSE "False"),
                        !.hash = _hash_object(PyTuple(<<Sorted(DOMAIN tools),
                                                        request.allow_none>>))]
                ELSE IF dependency = NoneObject
                THEN [NoThread EXCEPT !.pc = "returned", !.request = request,
                                      !.result = NoneText]
                ELSE IF dependency.is_grammar
                THEN [NoThread EXCEPT !.pc = "returned", !.request = request,
                                      !.result = dependency.source_object]
                ELSE [NoThread EXCEPT
                        !.pc = "hashed", !.request = request,
                        !.cache_key = Join(request.tool_name) \o "_"
                            \o Join(request.param_name) \o "_grammar",
                        !.hash = _hash_object(PyList(lists, dependency.source_object))]]
    /\ UNCHANGED <<ThreadFrame, cacheVars>>

\* cache_key in self._cache
CheckCache(t) ==
    /\ threads[t].pc = "hashed"
    /\ threads' = [threads EXCEPT ![t].pc =
                      IF threads[t].cache_key \in DOMAIN cache THEN "in_cache" ELSE "miss"]
    /\ UNCHANGED <<ThreadFrame, cacheVars>>

\* self._object_hashes.get(cache_key) == hash
CheckHash(t) ==
    /\ threads[t].pc = "in_cache"
    /\ threads' = [threads EXCEPT ![t].pc =
                      IF /\ threads[t].cache_key \in DOMAIN hashes
                         /\ hashes[threads[t].cache_key] = threads[t].hash
                      THEN "hit" ELSE "miss"]
    /\ UNCHANGED <<ThreadFrame, cacheVars>>

\* return self._cache[cache_key]
ReturnCached(t) ==
    /\ threads[t].pc = "hit"
    /\ threads' = [threads EXCEPT ![t].pc = "returned",
                                  ![t].result = cache[threads[t].cache_key]]
    /\ UNCHANGED <<ThreadFrame, cacheVars>>

\* The grammar is computed and self._cache[cache_key] = grammar
WriteCache(t) ==
    /\ threads[t].pc = "miss"
    /\ LET request == threads[t].request
           grammar ==
              IF request.op = "generate_tools_grammar"
              THEN ToolsGrammarText(tools, request.allow_none)
              ELSE ParameterGrammarText(
                      lists[get_dependency(get_tool(tools, request.tool_name),
                                           request.param_name).source_object])
       IN  /\ cache' = MemoPut(Memo(cache, hashes), threads[t].cache_key, grammar,
                               NoneObject).cache
           /\ threads' = [threads EXCEPT ![t].pc = "cached", ![t].result = grammar,
                                         ![t].computed = TRUE]
    /\ UNCHANGED <<ThreadFrame, hashes>>

\* self._object_hashes[cache_key] = hash; return grammar
WriteHash(t) ==
    /\ threads[t].pc = "cached"
    /\ hashes' = MemoPut(Memo(cache, hashes), threads[t].cache_key, NoneText,
                         threads[t].hash).hashes
    /\ threads' = [threads EXCEPT ![t].pc = "returned"]
    /\ UNCHANGED <<ThreadFrame, cache>>

NextThreads ==
    \E t \in Threads :
        \/ EnterGenerate(t) \/ CheckCache(t) \/ CheckHash(t)
        \/ ReturnCached(t) \/ WriteCache(t) \/ WriteHash(t)

SpecThreads == InitThreads /\ [][NextThreads]_vars

\* The grammar of a call for the current registry and lists, with no memo
CurrentGrammar(request) == Generate(tools, lists, Memo(<<>>, <<>>), request).grammar

\* No thread is inside the grammar generator
Quiescent == \A t \in Threads : threads[t].pc \in {"idle", "returned"}

\* The memo holds, for the key, a grammar and the hash of the content the
\* grammar was computed from, for some registry and some contents of the lists
EntryMatchesHash(key) ==
    /\ key \in DOMAIN hashes
    /\ \E fids \in {{"filter"}, GrammarFunctionIds}, ls \in ListStates,
          request \in GrammarRequests :
          LET memo == Generate(DeclaredRegistry(fids).tools, ls, Memo(<<>>, <<>>),
                               request).memo
          IN  /\ key \in DOMAIN memo.cache
              /\ memo.cache[key] = cache[key]
              /\ memo.hashes[key] = hashes[key]

\* The original statement of C22: with the registry and the lists unchanged,
\* whatever the interleaving of the callers' reads and writes and whatever
\* earlier calls left in the memo, every caller gets the grammar of the
\* current registry and lists, and when the callers are out the memo holds
\* for each key a grammar that matches the stored hash
C22_CallersGetCurrentGrammar ==
    /\ \A t \in Threads :
          threads[t].pc = "returned" =>
              threads[t].result = CurrentGrammar(threads[t].request)
    /\ Quiescent => \A key \in DOMAIN cache : EntryMatchesHash(key)

\* The same for the callers whose grammar does not come from a list that
\* json.dumps cannot serialize
C22_SerializableCallersCorrect ==
    /\ \A t \in Threads :
          (/\ threads[t].pc = "returned"
           /\ threads[t].request.op = "generate_parameter_grammar" =>
                  \A d \in Depends :
                      (/\ Functions[d.fid].name = threads[t].request.tool_name
                       /\ d.dependency.param_name = threads[t].request.param_name)
                      => d.dependency.source_object \notin Unserializable)
          => threads[t].result = CurrentGrammar(threads[t].request)
    /\ Quiescent => \A key \in DOMAIN cache : EntryMatchesHash(key)

\* Two callers of the grammar of filter's col both missed the memo, both
\* computed and wrote, and both returned the current grammar
C22_Witness ==
    /\ \A t \in Threads :
          /\ threads[t].pc = "returned"
          /\ threads[t].computed
          /\ threads[t].request = [op |-> "generate_parameter_grammar",
                                   tool_name |-> N_filter, param_name |-> P_column]
          /\ threads[t].result = CurrentGrammar(threads[t].request)
    /\ EntryMatchesHash("filter_col_grammar")

(***************************************************************************)
(* decorators.py: @tool and @depends stacked on one function, in either    *)
(* order, on a registry that earlier calls have filled.                    *)
(***************************************************************************)
\* functools.wraps(func): the wrapper that @tool returns has the __name__
\* of the function
wrapper(fid) == [name |-> Functions[fid].name, is_tool |-> TRUE]

\* The registry after the two decorators were applied to the function, the
\* lower one first: @tool over @depends(...) applies DependsDecorator.__call__
\* to the function and then tool to what it returns, the function;
\* @depends(...) over @tool applies tool and then DependsDecorator.__call__ to
\* the wrapper
Stacked(reg, fid, deps, tool_outer) ==
    IF tool_outer
    THEN register_tool(AddDependencies(reg, Functions[fid].name, deps), fid)
    ELSE AddDependencies(register_tool(reg, fid), wrapper(fid).name, deps)

\* The keyword arguments of @depends(...) as dependencies
StackedDepends ==
    {<<d>> : d \in DepChoices}
    \cup {<<p[1], p[2]>> : p \in {q \in DepChoices \X DepChoices : q[1] # q[2]}}

\* A function definition under @tool and @depends(...)
DeclareStacked ==
    /\ CountDeclared(declared, DOMAIN declared) < MaxDeclared
    /\ \E fid \in FunctionIds, deps \in StackedDepends, tool_outer \in BOOLEAN :
          LET r == Stacked(Registry(tools, pending), fid, deps, tool_outer)
          IN  /\ tools' = r.tools
              /\ pending' = r.pending
              /\ order' = keys_after_set(order, Functions[fid].name)
              /\ declared' = Declared(declared, Functions[fid].name, deps)
              /\ call' = [op |-> "stacked", fid |-> fid, name |-> Functions[fid].name,
                          deps |-> deps, tool_outer |-> tool_outer,
                          before |-> Registry(tools, pending)]
    /\ UNCHANGED <<lists, cacheVars, agentRest, auxVars>>

NextStacking == RegisterTool \/ AddDependency \/ Clear \/ DeclareStacked

SpecStacking == InitRegistry /\ [][NextStacking]_vars

\* C23: for a function whose name is not registered yet, @tool over
\* @depends(...) and @depends(...) over @tool leave the same registry: the
\* tool is registered, its dependencies are those that were pending for its
\* name followed by the declared ones, and nothing is pending for its name
C23_StackingOrderIndependent ==
    (RegistryOp("stacked") /\ call.name \notin DOMAIN call.before.tools) =>
        LET now == Registry(tools, pending)
            was_pending == IF call.name \in DOMAIN call.before.pending
                           THEN call.before.pending[call.name] ELSE <<>>
        IN  /\ now = Stacked(call.before, call.fid, call.deps, ~call.tool_outer)
            /\ call.name \in DOMAIN tools
            /\ tools[call.name].dependencies = was_pending \o call.deps
            /\ call.name \notin DOMAIN pending

\* @depends(...) was applied over @tool to a function whose name had a
\* pending dependency: the descriptor has the pending one and the new one
C23_Witness ==
    /\ RegistryOp("stacked")
    /\ ~call.tool_outer
    /\ call.name \notin DOMAIN call.before.tools
    /\ call.name \in DOMAIN call.before.pending
    /\ Len(tools[call.name].dependencies) = 2
    /\ call.name \notin DOMAIN pending

\* The same without the condition on the name
C23_AnyRegistry ==
    RegistryOp("stacked") =>
        Registry(tools, pending) = Stacked(call.before, call.fid, call.deps, ~call.tool_outer)

(***************************************************************************)
(* registry.py: get_all_tools returns self._tools.copy(), a new dict whose *)
(* values are the registry's ToolMetadata objects.  An object is known by  *)
(* the number seen.ids gives it when register_tool creates it; the dict a  *)
(* caller holds is ret, name -> [id, obj], and a write to an object shows  *)
(* wherever the object is held.                                            *)
(***************************************************************************)
MaxObjects == 2          \* register_tool calls
MaxSnapshots == 1        \* get_all_tools calls

\* The ToolMetadata object id has the value obj from now on, in the dict
\* that the caller holds
WriteThrough(entries, id, obj) ==
    [name \in DOMAIN entries |->
        IF entries[name].id = id THEN [id |-> id, obj |-> obj] ELSE entries[name]]

\* What the caller's dict shows: name -> descriptor
Shown(entries) == [name \in DOMAIN entries |-> entries[name].obj]

\* get_all_tools: self._tools.copy()
get_all_tools(t, ids) == [name \in DOMAIN t |-> [id |-> ids[name], obj |-> t[name]]]

InitSnapshot ==
    /\ tools = clear_registry.tools
    /\ pending = clear_registry.pending
    /\ order = <<>>
    /\ seen = NoSeen /\ files = <<>> /\ threads = <<>>
    /\ arg = <<>>
    /\ ret = [taken |-> FALSE, entries |-> <<>>]
    /\ lists = InitialLists
    /\ cache = <<>> /\ hashes = <<>>
    /\ declared = <<>>
    /\ cfg = NoneObject
    /\ history = <<>> /\ pc = "idle" /\ iteration = 0 /\ reasoning = <<>>
    /\ req = NoReq /\ sel = NoSel /\ retval = None /\ runs = 0
    /\ call = NoneObject /\ obs = NoObs

SnapshotFrame == <<lists, cacheVars, agentRest, files, threads>>

\* registry.register_tool(func): a new ToolMetadata object
RegisterNew ==
    /\ seen.objects < MaxObjects
    /\ \E fid \in GrammarFunctionIds :
          LET name == Functions[fid].name
          IN  /\ tools' = register_tool(Registry(tools, pending), fid).tools
              /\ pending' = register_tool(Registry(tools, pending), fid).pending
              /\ order' = keys_after_set(order, name)
              /\ seen' = [seen EXCEPT
                    !.objects = @ + 1,
                    !.ids = [n \in DOMAIN @ \cup {name} |->
                                IF n = name THEN seen.objects + 1 ELSE @[n]]]
              /\ call' = RegistryCall("register_tool", name, NoneObject)
    /\ UNCHANGED <<declared, arg, ret, SnapshotFrame>>

\* registry.add_dependency(func_name, ...): for a registered name the
\* dependency is appended to the list of the registry's object
AppendDependency ==
    /\ CountDeclared(declared, DOMAIN declared) < MaxDepends
    /\ \E fid \in GrammarFunctionIds, dependency \in DepChoices :
          LET name == Functions[fid].name
              r == add_dependency(Registry(tools, pending), name, dependency)
          IN  /\ tools' = r.tools
              /\ pending' = r.pending
              /\ declared' = Declared(declared, name, <<dependency>>)
              /\ ret' = IF name \in DOMAIN tools
                        THEN [ret EXCEPT !.entries =
                                WriteThrough(@, seen.ids[name], r.tools[name])]
                        ELSE ret
              /\ call' = RegistryCall("add_dependency", name, dependency)
    /\ UNCHANGED <<order, seen, arg, SnapshotFrame>>

\* registry.clear(): the dicts are emptied, the objects stay where they are
\* held
ClearDicts ==
    /\ tools' = clear_registry.tools
    /\ pending' = clear_registry.pending
    /\ declared' = <<>>
    /\ order' = <<>>
    /\ seen' = [seen EXCEPT !.ids = <<>>]
    /\ call' = RegistryCall("clear", <<>>, NoneObject)
    /\ UNCHANGED <<arg, ret, SnapshotFrame>>

\* snapshot = registry.get_all_tools(); ghost: arg is what the dict shows
\* when it is returned, and after the caller's own changes of it
GetAllTools ==
    /\ seen.calls < MaxSnapshots
    /\ seen' = [seen EXCEPT !.calls = @ + 1]
    /\ ret' = [taken |-> TRUE, entries |-> get_all_tools(tools, seen.ids)]
    /\ arg' = tools
    /\ call' = [op |-> "get_all_tools"]
    /\ UNCHANGED <<regVars, SnapshotFrame>>

\* del snapshot[name], by the caller
DeleteFromSnapshot ==
    /\ ret.taken
    /\ seen.mutations < MaxMutations
    /\ \E name \in DOMAIN ret.entries :
          /\ ret' = [ret EXCEPT !.entries = [n \in DOMAIN @ \ {name} |-> @[n]]]
          /\ arg' = [n \in DOMAIN arg \ {name} |-> arg[n]]
    /\ seen' = [seen EXCEPT !.mutations = @ + 1]
    /\ call' = [op |-> "del", before |-> Registry(tools, pending)]
    /\ UNCHANGED <<regVars, SnapshotFrame>>

\* snapshot[name].dependencies.append(dependency), by the caller: a write to
\* the object, which the registry holds too unless it was replaced or cleared
AppendInSnapshot ==
    /\ ret.taken
    /\ seen.mutations < MaxMutations
    /\ \E name \in DOMAIN ret.entries, dependency \in DepChoices :
          LET id == ret.entries[name].id
              obj == [ret.entries[name].obj EXCEPT !.dependencies = Append(@, dependency)]
          IN  /\ ret' = [ret EXCEPT !.entries = WriteThrough(@, id, obj)]
              /\ arg' = [arg EXCEPT ![name] = obj]
              /\ tools' = IF name \in DOMAIN seen.ids /\ seen.ids[name] = id
                          THEN [tools EXCEPT ![name] = obj]
                          ELSE tools
    /\ seen' = [seen EXCEPT !.mutations = @ + 1]
    /\ call' = [op |-> "append", before |-> Registry(tools, pending)]
    /\ UNCHANGED <<pending, order, lists, declared, SnapshotFrame>>

NextSnapshot ==
    \/ RegisterNew \/ AppendDependency \/ ClearDicts
    \/ GetAllTools \/ DeleteFromSnapshot \/ AppendInSnapshot

SpecSnapshot == InitSnapshot /\ [][NextSnapshot]_vars

\* The original statement of C24: the dict that get_all_tools returned shows
\* the names, descriptors and dependency lists it showed when it was
\* returned (changed only by what the caller did to it), whatever register,
\* add_dependency and clear calls came later, and a change that the caller
\* makes to it leaves the registry as it was
C24_SnapshotIsACopy ==
    /\ ret.taken => Shown(ret.entries) = arg
    /\ (call # NoneObject /\ call.op \in {"del", "append"}) =>
          Registry(tools, pending) = call.before

\* The dict was returned with filter in it, the registry was cleared after
\* that, and the dict still shows filter
C24_Witness ==
    /\ ret.taken
    /\ RegistryOp("clear")
    /\ N_filter \in DOMAIN ret.entries
    /\ Shown(ret.entries) = arg
    /\ N_filter \notin DOMAIN tools

\* The names the dict shows are those it was returned with, less those the
\* caller deleted, and a deletion by the caller leaves the registry as it was
C24_KeysAreCopied ==
    /\ ret.taken => DOMAIN ret.entries = DOMAIN arg
    /\ RegistryOp("del") => Registry(tools, pending) = call.before

(***************************************************************************)
(* The order of the events of one iteration of run().                      *)
(***************************************************************************)
\* This step issued a generation call: run() is suspended at a new await
Issued == pc' \in Awaiting /\ (pc' # pc \/ obs'.gen # obs.gen)

\* This step invoked a tool function
Invoked == call' # NoneObject

\* The name the selection call of this step returned
SelectedName == StripChars(Strip(obs'.lastSelect.out), {"\""})

\* The names of the parameters the values of an invocation were generated for
GeneratedFor(c) == [i \in 1..Len(c.raws) |-> c.raws[i].param_name]

\* C25: in a run the generation calls follow each other in the order reasoning,
\* selection, one extraction per parameter, invocation: a selection call is
\* issued only after a reasoning call or at the start of a run, an extraction
\* only after the selection of the same iteration or the extraction of the
\* parameter before, a re-reasoning only after an iteration ended with a
\* ToolResult turn; a tool is invoked only with the name the selection of the
\* same iteration returned and after exactly one value was generated for each
\* of its parameters in declared order, and the invocation appends exactly one
\* ToolResult turn before the next generation call
C25_IterationOrder ==
    [][ /\ (Issued /\ pc' = "reason") => pc \notin Awaiting
        /\ (Issued /\ pc' = "select") =>
              \/ pc \in {"reason", "rereason"} /\ iteration' = iteration
              \/ pc \notin Awaiting /\ cfg.reasoning_tokens <= 0 /\ iteration' = 0
        /\ (Issued /\ pc' = "param") =>
              /\ iteration' = iteration
              /\ \/ pc = "select" /\ sel'.idx = 1
                 \/ pc = "param" /\ sel'.idx = sel.idx + 1
                    /\ sel'.tool_name = sel.tool_name
              /\ req'.param_name = sel'.tool.parameters[sel'.idx].name
              /\ Len(sel'.kwargs) = sel'.idx - 1
        /\ (Issued /\ pc' = "rereason") =>
              /\ pc \in {"select", "param"}
              /\ iteration' = iteration + 1
              /\ history' = Append(history, history'[Len(history')])
              /\ history'[Len(history')].role = "ToolResult"
        /\ (sel'.tool_name # sel.tool_name /\ sel'.tool_name # <<>>) =>
              /\ pc = "select" /\ obs'.lastSelect # NoneObject
              /\ sel'.tool_name = SelectedName
              /\ iteration' = iteration
        /\ iteration' # iteration => sel' = NoSel
        /\ Invoked =>
              /\ \/ pc = "select" /\ call'.name = SelectedName
                 \/ pc = "param" /\ call'.name = sel.tool_name
              /\ GeneratedFor(call') = call'.params
              /\ Len(call'.kwargs) = Len(call'.params)
              /\ obs'.calls = obs.calls + 1
              /\ iteration' = iteration + 1
              /\ history' = Append(history, Turn("ToolResult",
                                   Join(call'.name) \o ": " \o call'.result))
              /\ obs'.gen <= obs.gen + 1
      ]_vars

\* a tool with two parameters was invoked in the second iteration of a run
C25_Witness ==
    /\ call # NoneObject /\ Len(call.params) = 2 /\ Len(call.raws) = 2
    /\ obs.before.iteration = 1 /\ obs.selects = 2
    /\ pc = "returned"

(***************************************************************************)
(* The reasoning calls of an Agent built with reasoning_tokens = 0.        *)
(***************************************************************************)
\* The positions of the Reasoning turns of the conversation
ReasoningTurns(h) == {i \in 1..Len(h) : h[i].role = "Reasoning"}

\* C26: when reasoning_tokens is zero no reasoning generation call is
\* awaited, in the first iteration or in a later one, and the conversation
\* holds no Reasoning turn
C26_NoReasoningAtZero ==
    cfg.reasoning_tokens <= 0 =>
        /\ pc \notin {"reason", "rereason"}
        /\ ReasoningTurns(history) = {}

\* What holds of C26: when reasoning_tokens is zero the reasoning call of
\* _reason is not issued and no Reasoning turn follows a User turn
C26_FirstReasoningSkipped ==
    cfg.reasoning_tokens <= 0 =>
        /\ pc # "reason"
        /\ \A i \in ReasoningTurns(history) : history[i - 1].role = "ToolResult"

\* with reasoning_tokens zero, a run went through two iterations
C26_Witness ==
    /\ cfg.reasoning_tokens <= 0 /\ pc = "returned"
    /\ obs.calls = 2 /\ ReasoningTurns(history) # {}

(***************************************************************************)
(* run() with an empty registry.                                           *)
(***************************************************************************)
\* The registry is empty and was empty during the whole of the current run
NoToolsRegistered == runs > 0 /\ DOMAIN tools = {} /\ ~obs.regChanged

\* run() returned at its "if not tools" check
ReturnedWithoutTools == pc = "returned" /\ ~obs.hadTools

\* C27: a run during which no tool is registered awaits no generation call
\* but the reasoning call, issues no selection call, extracts no parameter and
\* invokes no tool; when run() finds no tool at its check after the reasoning
\* step it returns the reasoning text, which is the content of the Reasoning
\* turn it appended, or the empty text when the reasoning step was skipped
C27_NoToolsReturnsReasoning ==
    /\ NoToolsRegistered =>
          /\ pc \in {"reason", "returned", "raised"}
          /\ pc = "returned" => ~obs.hadTools
          /\ pc = "raised" => obs.failed = "transport"
    /\ (NoToolsRegistered \/ ReturnedWithoutTools) =>
          /\ obs.selects = 0 /\ obs.calls = 0 /\ call = NoneObject
          /\ sel = NoSel /\ req.param_name = <<>>
          /\ obs.gen = (IF cfg.reasoning_tokens <= 0 THEN 0 ELSE 1)
    /\ ReturnedWithoutTools =>
          /\ retval = Join(reasoning)
          /\ IF cfg.reasoning_tokens <= 0
             THEN retval = "" /\ history[Len(history)].role = "User"
             ELSE history[Len(history)] = Turn("Reasoning", retval)

\* a run with no tool registered returned the text of its reasoning call
C27_Witness ==
    /\ NoToolsRegistered /\ ReturnedWithoutTools
    /\ cfg.reasoning_tokens > 0 /\ retval = "PROCESS_COMPLETE"

(***************************************************************************)
(* The re-reasoning step and the completion marker.                        *)
(***************************************************************************)
\* "process_complete" in reasoning.strip().lower()
HasMarker(text) == ContainsSeq(Lower(Strip(text)), L_process_complete)

\* This step is run() going on from a reasoning call that returned
ReasoningReturned(at) == pc = at /\ pc' # at /\ pc' # "raised"

\* C28: a selection call of an iteration after the first is issued only by the
\* step that takes the response of a re-reasoning call; when the text of a
\* re-reasoning call contains the completion marker, in any letter case, run()
\* returns its summary at once with no selection call issued, and a run that
\* ended makes no generation call and invokes no tool; the marker in the text
\* of the first reasoning call does not stop the run
C28_MarkerStopsAfterFirst ==
    [][ /\ (Issued /\ pc' = "select" /\ iteration' > 0) => pc = "rereason"
        /\ iteration' = iteration + 1 =>
              IF iteration' >= cfg.max_iterations
              THEN pc' = "returned" ELSE Issued /\ pc' = "rereason"
        /\ (Issued /\ pc' = "rereason") => iteration' > 0
        /\ (pc' = "param" \/ Invoked) /\ iteration > 0 /\ pc # "param" =>
              pc = "select"
        /\ ReasoningReturned("rereason") =>
              /\ history' = Append(history, Turn("Reasoning", Join(Strip(reasoning'))))
              /\ IF HasMarker(reasoning')
                 THEN /\ pc' = "returned"
                      /\ retval' = Summary(ToolResultCount(history))
                      /\ obs'.selects = obs.selects /\ obs'.gen = obs.gen
                      /\ obs'.calls = obs.calls /\ call' = NoneObject
                      /\ iteration' = iteration
                 ELSE IF DOMAIN tools = {} THEN pc' = "returned"
                      ELSE pc' = "select" /\ obs'.selects = obs.selects + 1
        /\ (ReasoningReturned("reason") /\ HasMarker(reasoning')
            /\ DOMAIN tools # {} /\ cfg.max_iterations > 0) =>
              pc' = "select" /\ obs'.selects = 1
        /\ (pc \in {"returned", "raised"} /\ runs' = runs) =>
              /\ obs'.gen = obs.gen /\ obs'.selects = obs.selects
              /\ obs'.calls = obs.calls /\ pc' = pc
      ]_vars

\* the first reasoning text held the marker and the run went on to invoke a
\* tool; the re-reasoning text held it and the run returned
C28_Witness ==
    /\ pc = "returned" /\ cfg.max_iterations = 2 /\ obs.calls = 1
    /\ Len(history) = 4
    /\ history[2] = Turn("Reasoning", "PROCESS_COMPLETE")
    /\ history[3].role = "ToolResult"
    /\ history[4] = Turn("Reasoning", "PROCESS_COMPLETE")
    /\ retval = Summary(1)

(***************************************************************************)
(* _get_parameter_value on its own: the grammar of the generation call for *)
(* one parameter of a registered tool, over the parameter's name, its      *)
(* annotation and its dependency.                                          *)
(***************************************************************************)
\* str(typing.List[int])
T_list_int == <<"t", "y", "p", "i", "n", "g", ".", "L", "i", "s", "t", "[", "i", "n", "t", "]">>

P_code == <<"c", "o", "d", "e">>

ExtractAnnotations == {T_str, T_int, T_float, T_bool, T_dict, T_list, T_list_int}

ExtractNames == {P_value, P_code}

\* The lists of the application: WORDS is empty
ExtractLists == [InitialLists EXCEPT !.WORDS = <<>>]

\* What @depends, @depends_grammar, @depends_grammar_file and
\* @depends_language declare for the parameter
ExtractDependencies(param_name) ==
    { NoneObject,
      ParameterDependency(param_name, "COLUMNS", <<"v">>, FALSE),
      ParameterDependency(param_name, "WORDS", <<"v">>, FALSE),
      ParameterDependency(param_name, G_raw, <<"g">>, TRUE),
      ParameterDependency(param_name, <<>>, <<"g">>, TRUE),
      ParameterDependency(param_name, read_text(PythonGrammarPath),
                          L_language \o L_python \o <<">">>, TRUE) }

\* The registry after the declaration of a tool with the one parameter
InitExtract ==
    \E a \in ExtractAnnotations, p \in ExtractNames :
      \E d \in ExtractDependencies(p) :
        /\ arg = [param_name |-> p, annotation |-> a, dependency |-> d]
        /\ tools = (N_filter :>
                      [name |-> N_filter, func |-> "filter",
                       parameters |-> <<[name |-> p, annotation |-> a]>>,
                       dependencies |-> IF d = NoneObject THEN <<>> ELSE <<d>>])
        /\ pending = clear_registry.pending
        /\ order = <<N_filter>>
        /\ declared = (N_filter :> (IF d = NoneObject THEN <<>> ELSE <<d>>))
        /\ lists = ExtractLists
        /\ seen = NoSeen /\ ret = NoneObject /\ files = <<>> /\ threads = <<>>
        /\ cache = <<>> /\ hashes = <<>>
        /\ cfg = NoneObject
        /\ history = <<>> /\ pc = "idle" /\ iteration = 0 /\ reasoning = <<>>
        /\ req = NoReq /\ sel = NoSel /\ retval = None /\ runs = 0
        /\ call = NoneObject /\ obs = NoObs

\* _get_parameter_value(tool_name, param_name, ...), to its generation call
GetParameterValue ==
    /\ pc = "idle"
    /\ LET r == ParameterRequest(tools, lists, Memo(cache, hashes), history,
                                 N_filter, arg.param_name)
       IN  /\ req' = r.req
           /\ cache' = r.memo.cache /\ hashes' = r.memo.hashes
    /\ pc' = "param"
    /\ call' = [op |-> "_get_parameter_value"]
    /\ UNCHANGED <<regVars, cfg, history, iteration, reasoning, sel, retval, runs,
                   obs, auxVars>>

NextExtract == GetParameterValue

SpecExtract == InitExtract /\ [][NextExtract]_vars

\* The grammar a dependency stands for: the raw grammar text, or the
\* alternation of the values of the list
DependencyGrammar(dependency) ==
    IF dependency.is_grammar THEN dependency.source_object
    ELSE ParameterGrammarText(lists[dependency.source_object])

\* The coarse grammar of a declared primitive type, if the type is one
PrimitiveGrammar(annotation) ==
    CASE annotation = T_int -> G_int
      [] annotation = T_float -> G_float
      [] annotation = T_bool -> G_bool
      [] OTHER -> NoneText

\* What a call carries for a grammar: _complete sends no empty grammar
Sent(grammar) == IF grammar = <<>> THEN NoneText ELSE grammar

\* C29: the generation call for a parameter with a dependency carries the
\* dependency's grammar, or no grammar if the parameter is named content or
\* code; the call for a parameter without one carries the coarse grammar of
\* its declared type if that is int, float or bool, and no grammar otherwise
C29_GrammarPriority ==
    pc = "param" =>
        IF arg.dependency # NoneObject
        THEN \/ req.grammar = Sent(DependencyGrammar(arg.dependency))
             \/ arg.param_name \in CodeParams /\ req.grammar = NoneText
        ELSE req.grammar = PrimitiveGrammar(arg.annotation)

\* What holds of C29: a dependency whose grammar is not empty decides the
\* grammar of the call, which carries it unless the parameter is named content
\* or code and the dependency is a language dependency; with no dependency and
\* an annotation that does not contain the name of another type, the call
\* carries the coarse grammar of a primitive type and none otherwise
C29_NonEmptyDependencyFirst ==
    pc = "param" =>
        IF arg.dependency # NoneObject
        THEN DependencyGrammar(arg.dependency) # <<>> =>
                req.grammar =
                    IF arg.param_name \in CodeParams
                       /\ IsLanguageDependency(arg.dependency)
                    THEN NoneText
                    ELSE DependencyGrammar(arg.dependency)
        ELSE arg.annotation # T_list_int =>
                req.grammar = PrimitiveGrammar(arg.annotation)

\* the call for a parameter declared List[int] with no dependency carries the
\* coarse grammar of int
C29_Witness ==
    /\ pc = "param" /\ arg.dependency = NoneObject
    /\ arg.annotation = T_list_int /\ req.grammar = G_int

(***************************************************************************)
(* run() for an application whose tools take one free text parameter: the  *)
(* line of a generated text that _get_parameter_value keeps.               *)
(***************************************************************************)
N_note == <<"n", "o", "t", "e">>
N_tag == <<"t", "a", "g">>
P_text == <<"t", "e", "x", "t">>

\* @tool def note(text: str) and @tool def tag(text: str), no dependencies
TextTools ==
    [n \in {N_note, N_tag} |->
        [name |-> n, func |-> Join(n),
         parameters |-> <<[name |-> P_text, annotation |-> T_str]>>,
         dependencies |-> <<>>]]

InitLines ==
    \E c \in Configs :
        /\ tools = TextTools
        /\ pending = clear_registry.pending
        /\ order = <<N_note, N_tag>>
        /\ declared = [n \in {N_note, N_tag} |-> <<>>]
        /\ seen = NoSeen /\ arg = NoneText /\ ret = NoneObject
        /\ files = <<>> /\ threads = <<>>
        /\ lists = InitialLists
        /\ cache = <<>> /\ hashes = <<>>
        /\ cfg = c
        /\ history = <<>> /\ pc = "idle" /\ iteration = 0 /\ reasoning = <<>>
        /\ req = NoReq /\ sel = NoSel /\ retval = None /\ runs = 0
        /\ call = NoneObject /\ obs = NoObs

NextLines == StartRun \/ AgentStep

SpecLines == InitLines /\ [][NextLines]_vars

\* The non-empty lines of a generated text, stripped
NonEmptyLines(raw) ==
    SelectSeq([i \in 1..Len(Split(StripChars(Strip(raw), {"\""}), "\n")) |->
                  Strip(Split(StripChars(Strip(raw), {"\""}), "\n")[i])],
              LAMBDA l : l # <<>>)

\* The position of the User turn of the current run
RunStart(h) == CHOOSE i \in 1..Len(h) :
                  h[i].role = "User" /\ \A j \in (i + 1)..Len(h) : h[j].role # "User"

\* The results of the invocations of the tool in the current run
InvocationsInRun(h, name) ==
    {i \in RunStart(h)..Len(h) :
        /\ h[i].role = "ToolResult"
        /\ \E o \in {"ok", "Error executing tool: boom"} :
              h[i].content = Join(name) \o ": " \o o}

\* The invoked tool has a parameter i that is neither code nor list or dict,
\* and the text generated for it has several non-empty lines and no fence
SeveralLines(i) ==
    /\ call.params[i] \notin CodeParams
    /\ ParamOf(TextTools[call.name], call.params[i]).annotation = T_str
    /\ Len(NonEmptyLines(call.raws[i].generated)) > 1
    /\ ~StartsWithSeq(call.raws[i].generated, Fence)

\* The line at index k of the text generated for parameter i, cleaned
LineAt(i, k) ==
    strip_marks(StripPrefixes(NonEmptyLines(call.raws[i].generated)[k + 1],
                              ChattyPrefixes(call.params[i])))

\* C30: the value kept for a parameter that is neither code nor list or dict,
\* of a generated text with several non-empty lines, is the line whose index
\* is the number of invocations of this tool in the current run before this
\* one
C30_LineOfOwnInvocations ==
    call # NoneObject =>
        \A i \in 1..Len(call.raws) :
            LET k == Cardinality(InvocationsInRun(history, call.name)) - 1
            IN  (SeveralLines(i) /\ k < Len(NonEmptyLines(call.raws[i].generated)))
                    => call.raws[i].text = LineAt(i, k)

\* What holds of C30: the line kept is the one whose index is the number of
\* ToolResult turns of the conversation at the time of the call, whatever
\* tool or run they are of, or the last line when there are fewer lines
C30_LineOfAllResults ==
    call # NoneObject =>
        \A i \in 1..Len(call.raws) :
            LET k == ToolResultCount(history) - 1
                n == Len(NonEmptyLines(call.raws[i].generated))
            IN  SeveralLines(i) => call.raws[i].text = LineAt(i, Min(k, n - 1))

\* tag is invoked for the first time in a run, after note, and the second
\* line of the text generated for its parameter is kept
C30_Witness ==
    /\ call # NoneObject /\ call.name = N_tag
    /\ Cardinality(InvocationsInRun(history, N_tag)) = 1
    /\ Cardinality(InvocationsInRun(history, N_note)) = 1
    /\ call.raws[1].generated = <<"x", "\n", "y">>
    /\ call.raws[1].text = <<"y">>

(***************************************************************************)
(* _get_parameter_value on its own: the conversion of a cleaned text for   *)
(* a parameter of a given annotation.                                      *)
(***************************************************************************)
CoerceAnnotations == {T_str, T_int, T_float, T_bool, T_dict, T_list, T_list_int}

\* Cleaned texts: JSON arrays with and without text around them, bracketed
\* text that is no JSON, plain and comma-separated text, numerals, number
\* words, text with digits in it
CoerceTexts ==
    { <<"[", "\"", "a", "\"", ",", "\"", "b", "\"", "]">>,
      <<"x", " ", "[", "\"", "a", "\"", "]", " ", "y">>,
      <<"[", "a", ",", " ", "b", "]">>,
      <<"a", ",", " ", "b">>,
      <<"7">>,
      <<"[", "[", "\"", "a", "\"", "]", ",", "\"", "b", "\"", "]", " ", "t">>,
      <<"[", "a">>,
      <<"1", "2">>,
      <<"t", "w", "e", "l", "v", "e">>,
      <<"T", "w", "e", "l", "v", "e", " ">>,
      <<"a", " ", "1", "2", " ", "b", " ", "3">>,
      <<"a", "b", "c">>,
      <<"-", "3">>,
      <<"1", ".", "5">>,
      <<"{", "}">> }

InitCoerce ==
    /\ NoProgram
    /\ arg \in [annotation : CoerceAnnotations, value : CoerceTexts]
    /\ ret = NoneObject
    /\ call = NoneObject

\* "Convert type based on parameter annotation", for the parameter and text
\* of arg
ConvertValue ==
    /\ call = NoneObject
    /\ ret' = Coerce(arg.annotation, arg.value)
    /\ call' = [op |-> "convert"]
    /\ UNCHANGED <<regVars, cacheVars, agentRest, seen, arg, files, threads>>

NextCoerce == ConvertValue

SpecCoerce == InitCoerce /\ [][NextCoerce]_vars

\* The annotation declares a list
DeclaredList == arg.annotation \in {T_list, T_list_int}

\* The first bracket-balanced [...] span of a text, <<>> when it has none
FirstSpan(value) ==
    LET from == Find(value, "[")
        rest == SubSeq(value, from, Len(value))
        to == IF from = 0 THEN 0 ELSE BracketEnd(rest, 1, 0)
    IN  IF to = 0 THEN <<>> ELSE SubSeq(rest, 1, to)

\* C31: for a parameter declared as a list of any element type the value
\* returned is a list: the JSON decoding of the first bracket-balanced span
\* of the text, or the comma-separated pieces of the text when there is no
\* such span or it is no JSON
C31_ListCoercion ==
    (ret # NoneObject /\ DeclaredList) =>
        /\ ret.v.t = "list"
        /\ ret.v = IF FirstSpan(arg.value) # <<>> /\ json_loads(FirstSpan(arg.value)).ok
                   THEN json_loads(FirstSpan(arg.value)).v
                   ELSE CommaSplit(arg.value)

\* What holds of C31: for a parameter declared List[str] and a text with an
\* opening bracket the value returned is a list, the decoding of the first
\* bracket-balanced span when that is JSON
C31_BracketedTextGivesList ==
    (ret # NoneObject /\ arg.annotation = T_list /\ Find(arg.value, "[") # 0) =>
        /\ ret.v.t = "list"
        /\ (FirstSpan(arg.value) # <<>> /\ json_loads(FirstSpan(arg.value)).ok) =>
              ret.v = json_loads(FirstSpan(arg.value)).v

\* the text ["a","b"] for a parameter declared List[int] is returned as it is
C31_Witness ==
    /\ ret # NoneObject /\ arg.annotation = T_list_int
    /\ arg.value = <<"[", "\"", "a", "\"", ",", "\"", "b", "\"", "]">>
    /\ ret.v = Str(arg.value) /\ ret.failed

(***************************************************************************)
(* The conversion for a parameter declared int.                            *)
(***************************************************************************)
\* The entries of the number-word table for the lowercased, stripped text
WordEntries(value) == {w \in number_words : w[1] = Join(Strip(Lower(value)))}

\* The number the first run of digits of a text writes, read digit by digit
RECURSIVE RunValue(_, _, _)
RunValue(value, i, acc) ==
    IF i > Len(value) \/ value[i] \notin Digits THEN acc
    ELSE RunValue(value, i + 1, 10 * acc + DigitValue(value[i]))

FirstDigit(value) == CHOOSE i \in 1..Len(value) :
                        value[i] \in Digits /\ \A j \in 1..(i - 1) : value[j] \notin Digits

HasDigit(value) == \E i \in 1..Len(value) : value[i] \in Digits

\* C32: for a parameter declared int the value returned is the integer the
\* text parses to; else the entry of the number-word table for the lowercased
\* text; else the integer written by the first run of digits of the text;
\* else the conversion fails and the text itself is returned
C32_IntegerPriority ==
    (ret # NoneObject /\ arg.annotation = T_int) =>
        /\ ~ret.raised
        /\ IF IntParse(arg.value).ok
           THEN ret.v = Int_(IntParse(arg.value).v) /\ ~ret.failed
           ELSE IF WordEntries(arg.value) # {}
           THEN /\ \E w \in WordEntries(arg.value) : ret.v = Int_(w[2])
                /\ ~ret.failed
           ELSE IF HasDigit(arg.value)
           THEN /\ ret.v = Int_(RunValue(arg.value, FirstDigit(arg.value), 0))
                /\ ~ret.failed
           ELSE ret.v = Str(arg.value) /\ ret.failed

\* the text "Twelve " for a parameter declared int gives 12
C32_Witness ==
    /\ ret # NoneObject /\ arg.annotation = T_int
    /\ arg.value = <<"T", "w", "e", "l", "v", "e", " ">>
    /\ ret.v = Int_(12)

(***************************************************************************)
(* The rules that sanitize_cycles flattens.                                *)
(***************************************************************************)
\* For each position of a right-hand side from i on, whether it lies outside
\* the quoted literals and the bracketed character classes (their delimiters
\* and escapes lie inside)
RECURSIVE Outside(_, _, _)
Outside(rhs, i, mode) ==
    IF i > Len(rhs) THEN <<>>
    ELSE IF mode # "plain" /\ rhs[i] = "\\"
    THEN (IF i = Len(rhs) THEN <<FALSE>>
          ELSE <<FALSE, FALSE>> \o Outside(rhs, i + 2, mode))
    ELSE IF mode = "quote"
    THEN <<FALSE>> \o Outside(rhs, i + 1, IF rhs[i] = "\"" THEN "plain" ELSE mode)
    ELSE IF mode = "class"
    THEN <<FALSE>> \o Outside(rhs, i + 1, IF rhs[i] = "]" THEN "plain" ELSE mode)
    ELSE IF rhs[i] = "\"" THEN <<FALSE>> \o Outside(rhs, i + 1, "quote")
    ELSE IF rhs[i] = "[" THEN <<FALSE>> \o Outside(rhs, i + 1, "class")
    ELSE <<TRUE>> \o Outside(rhs, i + 1, mode)

\* The identifiers of a right-hand side that start with a lowercase letter:
\* the longest runs of letters, digits and hyphens outside literals and
\* classes
Identifiers(rhs) ==
    LET out == Outside(rhs, 1, "plain")
        part(i) == i \in 1..Len(rhs) /\ out[i] /\ (IsAlnum(rhs[i]) \/ rhs[i] = "-")
    IN  {SubSeq(rhs, p[1], p[2]) :
            p \in {q \in (1..Len(rhs)) \X (1..Len(rhs)) :
                      /\ q[1] <= q[2]
                      /\ \A k \in q[1]..q[2] : part(k)
                      /\ ~part(q[1] - 1) /\ ~part(q[2] + 1)
                      /\ IsLower(rhs[q[1]])}}

\* The reference graph of a text: an edge from rule r to rule s when s is a
\* rule of the text and an identifier of r's right-hand side; the right-hand
\* side of a rule that several lines define is that of the last of them
ReferenceGraph(text) ==
    LET rlines == RuleLines(SplitLines(text))
        names == {RuleOf(rlines[i]).name : i \in 1..Len(rlines)}
        last(n) == CHOOSE i \in 1..Len(rlines) :
                      /\ RuleOf(rlines[i]).name = n
                      /\ \A j \in (i + 1)..Len(rlines) : RuleOf(rlines[j]).name # n
    IN  UNION {{<<n, s>> : s \in Identifiers(RuleOf(rlines[last(n)]).rhs) \cap names} :
               n \in names}

\* The rules that lie on a cycle of the reference graph
OnCycle(text) == {e[1] : e \in {f \in TransitiveClosure(ReferenceGraph(text)) : f[1] = f[2]}}

\* C33: the list of flattened rules that sanitize_cycles returns holds exactly
\* the rules that lie on a cycle of the reference graph of the text, the rules
\* that name only themselves included, each once and in ascending order
C33_FlattenedAreTheCyclicRules ==
    RegistryOp("sanitize_cycles") =>
        /\ Range(ret.flattened) = OnCycle(arg)
        /\ Len(ret.flattened) = Cardinality(OnCycle(arg))
        /\ \A i \in 1..(Len(ret.flattened) - 1) :
              StrLess(ret.flattened[i], ret.flattened[i + 1])

\* a text with the cycle a -> b -> a, a rule tok-name that names a and lies
\* on no cycle: a and b are flattened, in this order
C33_Witness ==
    /\ RegistryOp("sanitize_cycles")
    /\ arg = JoinLines(<<GrammarLines[2], GrammarLines[7], GrammarLines[1]>>)
    /\ ret.flattened = << <<"a">>, <<"b">> >>
    /\ OnCycle(arg) = { <<"a">>, <<"b">> }

\* a rule that names only itself is flattened
C33_SelfReferenceWitness ==
    /\ RegistryOp("sanitize_cycles")
    /\ arg = GrammarLines[4]
    /\ ret.flattened = << <<"a">> >>

(***************************************************************************)
(* What sanitize_cycles changes in a text that has cycles.                 *)
(***************************************************************************)
\* The line defines the rule of this name
Defines(line, name) == ContainsSeq(line, RuleSep) /\ RuleOf(line).name = name

\* The lines of a text that define the fallback rule
FallbackDefinitions(lines) == {i \in 1..Len(lines) : Defines(lines[i], FallbackName)}

\* The lines of the text returned are the lines of the input, in order, with
\* every line that defines a flattened rule replaced by "name ::= fallback"
LinesKept ==
    LET old == SplitLines(arg)
        new == SplitLines(ret.text)
    IN  /\ Len(new) \in {Len(old), Len(old) + 1}
        /\ \A i \in 1..Len(old) :
              new[i] = IF \E n \in Range(ret.flattened) : Defines(old[i], n)
                       THEN RuleOf(old[i]).name \o ToFallback
                       ELSE old[i]
        /\ Len(new) = Len(old) + 1 => new[Len(new)] = FallbackRule

\* C34: when sanitize_cycles finds cycles, the text returned has the lines of
\* the input in order, those that define flattened rules replaced by
\* "name ::= fallback" and the others as they were; it has exactly one
\* definition of the fallback rule, and the fallback rule is appended only
\* when the input defines none
C34_OnlyFlattenedLinesChange ==
    (RegistryOp("sanitize_cycles") /\ ret.flattened # <<>>) =>
        /\ LinesKept
        /\ Cardinality(FallbackDefinitions(SplitLines(ret.text))) = 1
        /\ Len(SplitLines(ret.text)) = Len(SplitLines(arg)) + 1
              <=> FallbackDefinitions(SplitLines(arg)) = {}

\* What holds of C34: the lines are kept as stated, and the fallback rule is
\* appended exactly when no line of the output so far starts with
\* "fallback ::=", written with one blank
C34_LinesKeptFallbackByPrefix ==
    (RegistryOp("sanitize_cycles") /\ ret.flattened # <<>>) =>
        /\ LinesKept
        /\ Len(SplitLines(ret.text)) = Len(SplitLines(arg)) + 1
              <=> ~\E i \in 1..Len(SplitLines(arg)) :
                     StartsWithSeq(Strip(SplitLines(ret.text)[i]),
                                   FallbackName \o <<" ">> \o RuleSep)

\* the input defines fallback without blanks and has a rule that names
\* itself: the text returned has two definitions of fallback
C34_Witness ==
    /\ RegistryOp("sanitize_cycles")
    /\ arg = JoinLines(<<GrammarLines[11], GrammarLines[4]>>) \o <<"\n">>
    /\ ret.flattened = << <<"a">> >>
    /\ FallbackDefinitions(SplitLines(ret.text)) = {1, 3}

(***************************************************************************)
(* run() called again on an Agent whose conversation holds the turns of an *)
(* earlier run, as a benchmark runner does for each of its scenarios.      *)
(***************************************************************************)
MaxCarried == 4         \* a further run() starts while the history is shorter

\* await agent.run(user_message) on an Agent that may have run before
StartLaterRun ==
    /\ pc \notin Awaiting
    /\ runs < MaxRuns
    /\ Len(history) < MaxCarried
    /\ Commit(BeginRun(M, tools, "m"))
    /\ UNCHANGED regVars

NextRuns == StartLaterRun \/ AgentStep \/ EnvClear

SpecRuns == InitLines /\ [][NextRuns]_vars

\* run() returned its summary
ReturnedSummary == pc = "returned" /\ obs.hadTools

\* The conversation holds the result of a lookup that found no tool
LookupMissed ==
    \E i \in 1..Len(history), n \in {N_note, N_tag} :
        history[i] = Turn("ToolResult",
                          Join(n) \o ": " \o "Error: Tool " \o Join(n) \o " not found")

\* C35: the number in the summary that run() returns is the number of tools
\* invoked during that call of run(), in a first and in a later run, and in a
\* run in which a selected tool was not found
C35_SummaryCountsInvocations ==
    ReturnedSummary => retval = Summary(obs.calls)

\* What holds of C35: the number is that of the invocations of the run in the
\* first run of an Agent in which every selected tool was found
C35_FirstRunWithoutMiss ==
    (ReturnedSummary /\ runs = 1 /\ ~LookupMissed) => retval = Summary(obs.calls)

\* a second run on the Agent invoked one tool and returned the number 2
C35_Witness ==
    /\ ReturnedSummary /\ runs = 2 /\ ~LookupMissed
    /\ obs.calls = 1 /\ retval = Summary(2)

\* a run in which the selected tool was not found invoked no tool and
\* returned the number 1
C35_MissWitness ==
    /\ ReturnedSummary /\ runs = 1 /\ LookupMissed
    /\ obs.calls = 0 /\ retval = Summary(1)

\* The step that led here took the response of a selection call
JustSelected == obs.lastSelect # NoneObject

\* What C36 asks of a selection: the name of a registered tool leads to that
\* tool, and without allow_no_tool a non-empty output does not lead to STOP
SelectionKept ==
    /\ obs.lastSelect.out \in DOMAIN tools =>
          /\ obs.lastSelect.to = "EXTRACT_PARAMS"
          /\ \/ pc = "param" /\ sel.tool_name = obs.lastSelect.out
             \/ call # NoneObject /\ call.name = obs.lastSelect.out
    /\ (~cfg.allow_no_tool /\ obs.lastSelect.out # <<>>) =>
          obs.lastSelect.to # "STOP"

\* C36: the stop sentinel is distinct from every registered tool name: a
\* selection output that names a registered tool leads to the extraction of
\* its parameters or to its invocation, and when allow_no_tool is false a
\* non-empty output of the selection grammar never leads to STOP
C36_SentinelDistinct == JustSelected => SelectionKept

\* What holds of C36: the same, in a run during which the registry was not
\* changed and holds no tool named NONE
C36_DistinctUnlessNamedNone ==
    (JustSelected /\ ~obs.regChanged /\ N_NONE \notin DOMAIN tools) => SelectionKept

\* A tool named NONE is registered, allow_no_tool is false, the selection
\* grammar's output NONE was returned, and run() stopped with no tool invoked
C36_Witness ==
    /\ JustSelected /\ ~obs.regChanged
    /\ N_NONE \in DOMAIN tools /\ ~cfg.allow_no_tool
    /\ obs.lastSelect.out = N_NONE
    /\ obs.lastSelect.to = "STOP"
    /\ pc = "returned" /\ call = NoneObject /\ obs.calls = 0

\* The last step applied a file or language declaration that raised
RaisedDeclaration == FileDeclaration /\ call.raised # None

\* C37: a dependency declaration that raises (unsupported language tag or
\* missing grammar file) leaves the registry as it was before it: nothing of
\* that decorator application, for any parameter of the call, is attached to
\* a tool or left pending for a later registration of the name
C37_RaisingDeclarationLeavesRegistry ==
    RaisedDeclaration => Registry(tools, pending) = call.before

\* What holds of C37: the registry is as before when the fault is in the
\* first keyword argument of the declaration
C37_FirstFaultLeavesRegistry ==
    (RaisedDeclaration /\ 1 \in Faulty) => Registry(tools, pending) = call.before

\* @depends_grammar_file(col="g", val="~/g") on the unregistered filter, with
\* g a file and no file at the expanded ~/g, raised FileNotFoundError and
\* left col's dependency pending for the name
C37_Witness ==
    /\ RaisedDeclaration
    /\ call.op = "depends_grammar_file"
    /\ call.kwargs = << <<P_column, <<"g">> >>, <<P_value, <<"~", "/", "g">> >> >>
    /\ call.raised = "FileNotFoundError"
    /\ N_filter \notin DOMAIN tools
    /\ N_filter \notin DOMAIN call.before.pending
    /\ N_filter \in DOMAIN pending
    /\ Len(pending[N_filter]) = 1
    /\ pending[N_filter][1].param_name = P_column

(***************************************************************************)
(* sanitize_cycles applied to a grammar text and then to the text that it  *)
(* returned.                                                               *)
(***************************************************************************)
\* sanitize_cycles(text) on the text that sanitize_cycles(arg) returned
SanitizeReturned ==
    /\ call # NoneObject /\ call.op = "sanitize_cycles"
    /\ ret' = sanitize_cycles(ret.text)
    /\ call' = [op |-> "sanitize_returned", first |-> ret]
    /\ UNCHANGED <<regVars, cacheVars, agentRest, seen, arg, files, threads>>

NextResanitize == SanitizeCycles \/ SanitizeReturned

SpecResanitize == InitSanitize /\ [][NextResanitize]_vars

\* sanitize_cycles has been applied to its own result
Resanitized == call # NoneObject /\ call.op = "sanitize_returned"

\* The names of the rules that the lines of a text define
DefinedRules(text) ==
    LET rlines == RuleLines(SplitLines(text))
    IN  {RuleOf(rlines[i]).name : i \in 1..Len(rlines)}

\* The names that the rule sanitize_cycles appends brings into a grammar
FallbackNames ==
    {FallbackName,
     <<"t", "o", "k", "-", "n", "a", "m", "e">>,
     <<"t", "o", "k", "-", "n", "u", "m", "b", "e", "r">>,
     <<"t", "o", "k", "-", "s", "t", "r", "i", "n", "g">>}

\* C38: sanitize_cycles is idempotent: applied to the text it returned, for
\* any grammar, it returns that text unchanged and an empty flattened list
C38_Idempotent ==
    Resanitized => ret = [text |-> call.first.text, flattened |-> <<>>]

\* What holds of C38: the same for a grammar that defines no rule named
\* fallback, tok-name, tok-number or tok-string
C38_IdempotentWithoutFallbackNames ==
    (Resanitized /\ DefinedRules(arg) \cap FallbackNames = {}) =>
        ret = [text |-> call.first.text, flattened |-> <<>>]

\* From "fallback ::= a" and "a ::= fallback" the first application flattened
\* a and fallback; applied to the text it returned, the second returns the
\* rule fallback as flattened again
C38_Witness ==
    /\ Resanitized
    /\ arg = JoinLines(<<GrammarLines[5], GrammarLines[6]>>) \o <<"\n">>
    /\ call.first.flattened = <<<<"a">>, FallbackName>>
    /\ ret.text = call.first.text
    /\ ret.flattened = <<FallbackName>>

\* From "a ::= a" the first application flattened a and appended the
\* fallback rule, and the second returns that text and an empty list
C38_StableWitness ==
    /\ Resanitized
    /\ arg = GrammarLines[4] \o <<"\n">>
    /\ call.first.flattened = <<<<"a">>>>
    /\ call.first.text # arg
    /\ ret = [text |-> call.first.text, flattened |-> <<>>]

====
